---- MODULE Spec2Model ----
(***************************************************************************)
(* A model of the gokit logging core: xlog.SlogLogger (construction and    *)
(* UpdateConfig, severity filter, sampling, the buffer channel, the        *)
(* consumer goroutine processLogs with its write faults, Flush and Close), *)
(* the loggers of WithTrace and WithMetadata, sample.RateSampler,          *)
(* sample.JitterSampler, roator.ZapRotator and the writer of GetWriter,    *)
(* xlog.CustomRotator (its flush path and Cleanup), the retry policies     *)
(* and BulkWriteWithRetry, xfile.FileCompressor, and cfg.BaseConfig with   *)
(* its watchers.                                                           *)
(***************************************************************************)
EXTENDS Integers, Sequences, FiniteSets, TLC

(* ----------------------------- bounds ---------------------------------- *)
\* config.AsyncBufferSize: the capacity of the buffer channel and the batch size.
AsyncBufferSize == 2
\* The number of log calls the producers make in all.
MaxLogs == 3
\* The width of the sampler's unsigned word; the program's is 64 (rate is a
\* uint64 and the draw is rand.Uint64()), scaled down so that the draws can be
\* enumerated.  The fixed-point one is 2^(WordBits-1), as 1<<63 is for 64 bits.
WordBits == 4
\* Rates are the fractions k/RateDen.
RateDen == 4
\* JitterSampler.jitter, in ticks of the clock.
JitterInterval == 2
\* The last instant of the clock that time.Now() reads.
MaxTime == 3
\* The number of JitterSampler.Sample calls made in all.
MaxSamples == 4
\* ZapRotator: config.MaxSize*1024*1024, the size threshold in bytes.
ZapMaxBytes == 2
\* The longest slice given to ZapRotator.Write, and the largest size of the
\* file NewZapRotator finds at config.Filename.
MaxWrite == 2
MaxExisting == 3
\* The largest config.MaxBackups and config.MaxAge (days) of a ZapRotator.
MaxBackups == 2
MaxAgeDays == 1
\* The instants of the clock in one second, the grain of the timestamp in a
\* rotated file's name, and in one day, the unit of config.MaxAge; the last
\* instant that time.Now() reads for the ZapRotator.
SecondTicks == 2
DayTicks == 3
ZapMaxTime == 4
\* CustomRotator: params.BufferSize; logger.MaxSize in bytes, an entry being
\* one byte; the number of entries written in all; the last hour of the clock.
CrBufferSize == 2
CrMaxSize == 3
CrMaxEntries == 3
CrMaxHour == 1
\* The number of files in the directory beyond which Rotate is not called.
CrMaxFiles == 5
\* Cleanup: the latest ModTime of a file of the directory, the last instant
\* of the clock, and the largest notCompressed and maxBackups.
ClMaxMod == 3
ClMaxTime == 5
ClMaxCount == 2
\* Retry policies: the largest MaxAttempts; a second in units of
\* time.Duration, and the longest WaitTime and BaseWaitTime in those units;
\* the last attempt number given to a policy called on its own.
RetryMaxAttempts == 3
SecondUnits == 2
RetryMaxWait == 3
PolicyMaxAttempt == 4
\* The bytes a caller writes to the active file past the threshold, through
\* the writer of GetWriter.
HeldMaxBytes == 2
\* Compress: the number of files of the source and the bytes of a file.
\* BaseConfig: the versions of the configuration after the first.
MaxVersion == 2
AMaxFiles == 2
AMaxSize == 2

\* The producer goroutine, and the goroutine that calls Flush (once).  log is
\* one atomic select per call, so further producers add interleavings of the
\* same steps only.
Producers == {1}
Flushers == {1}
\* The goroutines that call JitterSampler.Sample concurrently.
Samplers == {1, 2}

(* ----------------------------- levels ---------------------------------- *)
Debug == "DEBUG"
Info == "INFO"
Warn == "WARN"
Error == "ERROR"
Fatal == "FATAL"
Levels == {Debug, Info, Warn, Error, Fatal}

levelOrder == [l \in Levels |->
    CASE l = Debug -> 0 [] l = Info -> 1 [] l = Warn -> 2 [] l = Error -> 3 [] l = Fatal -> 4]

IsLowerOrEqualThan(l, other) == levelOrder[l] <= levelOrder[other]

IsHighThan(l, other) == levelOrder[l] > levelOrder[other]

(* ----------------------------- sampler --------------------------------- *)
\* The number of values of the unsigned word (2^64 in the program).
WordSize == 2 ^ WordBits
\* 1 << 63 in the program.
FixedOne == 2 ^ (WordBits - 1)
\* The values rand.Uint64() can return.
Draws == 0..(WordSize - 1)
\* The float64 rates a caller can pass, as numerators over RateDen: -1/2 .. 2.
RateNums == (-(RateDen \div 2))..(2 * RateDen)
\* The rates validateConfig accepts: 0 .. 1.
ValidRateNums == 0..RateDen
\* Those of them the logger model is started with: 0 and 1.
ConfigRateNums == {0, RateDen}

\* Go's float-to-integer conversion truncates toward zero.
TruncDiv(a, b) == IF a >= 0 THEN a \div b ELSE -((-a) \div b)

\* uint64(rate * (1 << 63)): the values the conversion can yield for the rate
\* k/RateDen.  A product the word cannot represent (negative, or 2^64 and above)
\* converts to an implementation-dependent value: the wrapped value, the
\* saturated value or zero, depending on the target.
RateToUint(k) ==
    LET v == TruncDiv(k * FixedOne, RateDen) IN
    IF v >= 0 /\ v < WordSize THEN {v}
    ELSE {v % WordSize, IF v < 0 THEN 0 ELSE WordSize - 1, 0}

\* RateSampler.Sample with the draw made explicit.
Sample(draw, r) == draw < r

(* ----------------------------- records --------------------------------- *)
\* slog.Record values, by what the consumer distinguishes: a record logged by
\* producer p as its n-th call, the FLUSH_SIGNAL marker, and the empty
\* slog.Record{} the consumer sends after a flush.
Record(p, n) == [kind |-> "rec", p |-> p, n |-> n]
FlushSignal == [kind |-> "FLUSH_SIGNAL", p |-> 0, n |-> 0]
EmptyRecord == [kind |-> "empty", p |-> 0, n |-> 0]

VARIABLES
    buffer,     \* l.buffer: the records in the channel, oldest first
    done,       \* l.done is closed
    records,    \* processLogs: the local batch
    cpc,        \* processLogs: "select", "ack" (at l.buffer <- slog.Record{}), "exit"
    written,    \* the records passed to handler.Handle, in order
    level,      \* l.level
    rate,       \* sampler.rate (the stored fixed-point threshold)
    closePc,    \* Close: "idle", "waiting" (in wg.Wait), "returned"
    flushPc,    \* Flush, per caller: "idle", "waiting" (in <-flushDone), "returned"
    flushSnap,  \* per Flush caller: the records enqueued before its call
    closeSnap,  \* the records enqueued before Close was called
    nLogs,      \* per producer: the number of log calls it has made
    enqueued,   \* the records that log calls have placed in the channel
    event,      \* the operation that led to the current state, with its inputs
    sIn,        \* the rate last given to NewRateSampler/SetRate (numerator)
    sDraw,      \* the draw of the latest Sample call since the rate was set, or -1
    sOut,       \* the result of the latest Sample call
    jClock,     \* the instant time.Now() returns
    jRate,      \* JitterSampler.rate (numerator over RateDen)
    lastSample, \* JitterSampler.lastSample
    jPc,        \* JitterSampler.Sample, per caller: "idle", "gate", "rate"
    jNow,       \* JitterSampler.Sample, per caller: its local now
    jAccepted,  \* the timestamps of the Sample calls that returned true
    jCalls,     \* the number of JitterSampler.Sample calls made
    config,     \* l.config
    handler,    \* l.handler
    arg,        \* the config given to the latest NewSlogLogger/UpdateConfig call
    callRet,    \* what that call returned: "none" (not yet), "ok", "error", "panic"
    upc,        \* UpdateConfig: "idle", "level", "sampler", "handler", "config", "done"
    uOld,       \* level, sampler rate, handler and config when UpdateConfig was called
    faulty,     \* the writer is in a condition in which handler.Handle can fail
    internalErrors, \* the records whose failure writeBatch gave to logInternalError
    zSize,      \* ZapRotator.size
    zWriter,    \* ZapRotator.writer: "open", or "closed" after a failed Rotate
    zFile,      \* the size of the file at config.Filename
    zBackups,   \* the rotated files: name (the second in it), size, ModTime
    zLast,      \* the latest ZapRotator call: its name, the bytes written, its
                \* error, whether it rotated, the size of the active file when
                \* it did, the rotated name and whether Rotate returned nil
    zClock,     \* time.Now() as the ZapRotator reads it, in instants
    zMod,       \* the ModTime of the file at config.Filename
    zConfig,    \* ZapRotator.config: MaxBackups and MaxAge
    zHeld,      \* the io.Writer a caller holds from GetWriter: "none", "same"
                \* (it is r.writer) or "stale" (r.writer was replaced since)
    custom,     \* the CustomRotator: currentFile, logger.Filename, the file
                \* the lumberjack logger holds open and its count of bytes,
                \* buffer, writeChannel; and the files of the directory
    crHour,     \* the hour of the clock, which rotationFunc puts in the name
    crSent,     \* the number of logWriter.Write calls made
    crFlushed,  \* the entries flushBuffer has written and dropped
    clDir,      \* the files of the log directory: ModTime, and whether the
                \* file is a compressed one
    clConfig,   \* CustomRotator.notCompressed, maxBackups, maxAge
    clNow,      \* time.Now() as Cleanup reads it, in instants
    clLast,     \* the latest Cleanup call: the files it ranked, those it
                \* compressed and removed, and whether it returned an error
    rOpts,      \* BulkWriteWithRetry: opts, nil or with its RetryPolicy
    rPc,        \* "call", "attempt" (about to call BulkWrite) or "done"
    rAttempt,   \* attempt, the loop variable
    rOutcomes,  \* whether each BulkWrite call so far returned a nil error
    rSlept,     \* the seconds slept after each failed attempt that was retried
    rResult,    \* what BulkWriteWithRetry returned
    pPolicy,    \* the policy whose methods are called
    pOut,       \* ShouldRetry and WaitDuration for attempt 0, 1, ... so far
    aFormat,    \* Compress: param.Format
    aSource,    \* the sizes of the files of param.Source, in Walk's order
    aWalk,      \* the file filepath.Walk visits next
    aCopy,      \* the copying goroutine of each file: "none", "ready", "done"
                \* or "failed"
    aArchive,   \* the entries written to the archive: file, declared size,
                \* content, and whether the entry's writer is closed
    aPc,        \* Compress: "walk", "wait" (in g.Wait) or "done"
    aErr,       \* whether Compress returned an error
    newLogger,  \* the logger WithTrace or WithMetadata returned, if any: its
                \* level, sampler and handler (buffer and done are shared)
    dRet,       \* how the latest call on that logger ended
    watchers,   \* BaseConfig.watchers: the channels of the list, in order
    stopCh,     \* internal.stopCh is closed
    bcValue,    \* BaseConfig.value: the current configuration, by version
    wPc,        \* each caller of Watch: "idle", "added" (its channel is in
                \* the list, before ch <- bc.Get()), "returned" or "panic"
    wCh,        \* the channel each call of Watch made: the values it holds
                \* and whether it is closed
    wCtx,       \* the ctx of each call: "live", "cancelled", or "removed"
                \* once the goroutine of Watch has run removeWatcher
    wErr        \* the panic of a channel operation: "none", "send on closed
                \* channel" or "close of closed channel"

samplerVars == <<sIn, sDraw, sOut>>
jitterVars == <<jClock, jRate, lastSample, jPc, jNow, jAccepted, jCalls>>
\* The variables of the logger, and those of the other components.
loggerVars == <<buffer, done, records, cpc, written, level, rate, closePc, flushPc,
                flushSnap, closeSnap, nLogs, enqueued, event>>
configVars == <<config, handler, arg, callRet, upc, uOld>>
faultVars == <<faulty, internalErrors>>
zapVars == <<zSize, zWriter, zFile, zBackups, zLast, zClock, zMod, zConfig, zHeld>>
\* The CustomRotator.
customVars == <<custom, crHour, crSent, crFlushed>>
\* CustomRotator.Cleanup and the directory it sweeps.
cleanupVars == <<clDir, clConfig, clNow, clLast>>
\* BulkWriteWithRetry, and the retry policies called on their own.
retryVars == <<rOpts, rPc, rAttempt, rOutcomes, rSlept, rResult>>
policyVars == <<pPolicy, pOut>>
\* FileCompressor.Compress at work.
compressVars == <<aFormat, aSource, aWalk, aCopy, aArchive, aPc, aErr>>
\* The logger derived by WithTrace or WithMetadata.
derivedVars == <<newLogger, dRet>>
\* BaseConfig and its watchers.
watchVars == <<watchers, stopCh, bcValue, wPc, wCh, wCtx, wErr>>
lateVars == <<compressVars, derivedVars, watchVars>>
extVars == <<customVars, cleanupVars, retryVars, policyVars, lateVars>>
auxVars == <<jitterVars, configVars, faultVars, zapVars, extVars>>
vars == <<loggerVars, samplerVars, auxVars>>

\* An operation's record in event; a log call adds its level, what the sampler
\* did in it and how it ended.
Op(name) == [op |-> name, p |-> 0, level |-> Debug, consulted |-> FALSE,
             accepted |-> FALSE, fate |-> "none"]

RECURSIVE SumOver(_, _)
SumOver(f, S) == IF S = {} THEN 0
                 ELSE LET x == CHOOSE y \in S : TRUE IN f[x] + SumOver(f, S \ {x})

TotalLogs == SumOver(nLogs, Producers)

(* ----------------------------- LogConfig ------------------------------- *)
TextEncoder == "text"
JSONEncoder == "json"
ProtoEncoder == "proto"
Encoders == {TextEncoder, JSONEncoder, ProtoEncoder}

RateSamplerType == "rate"
\* The sampler types of the configs: the rate sampler, and the unset type,
\* for which the default branch makes a rate sampler of rate 1.
SamplerTypes == {RateSamplerType, ""}

\* config.Writer: nil, or one of two writers.
NilWriter == "nil"
Writers == {NilWriter, "w1", "w2"}

\* The values of the other fields that the configs are built from.
ConfigLevels == {Info, Error}
BufferSizes == {-1, 0, AsyncBufferSize}
FlushIntervals == {0, 1}
ConfigRates == {-1, 0, RateDen, RateDen + 1}

Configs == [Level : ConfigLevels, Encoder : Encoders, Writer : Writers,
            AsyncBufferSize : BufferSizes, FlushInterval : FlushIntervals,
            Sampling : [Type : SamplerTypes, Rate : ConfigRates]]

\* validateConfig returns nil.
NoError == "nil"

\* validateConfig without the lower bound of the buffer size: a size of zero passes.
validateConfigZeroBuffer(c) ==
    IF c.Writer = NilWriter THEN "log writer is not set"
    ELSE IF c.AsyncBufferSize < 0 THEN "async buffer size must be greater than 0"
    ELSE IF c.FlushInterval <= 0 THEN "flush interval must be greater than 0"
    ELSE IF c.Sampling.Rate < 0 \/ c.Sampling.Rate > RateDen
         THEN "sampling rate must be between 0 and 1"
    ELSE NoError

\* validateConfig without the upper bound of the rate: a rate above 1 passes.
validateConfigRateAboveOne(c) ==
    IF c.Writer = NilWriter THEN "log writer is not set"
    ELSE IF c.AsyncBufferSize <= 0 THEN "async buffer size must be greater than 0"
    ELSE IF c.FlushInterval <= 0 THEN "flush interval must be greater than 0"
    ELSE IF c.Sampling.Rate < 0 THEN "sampling rate must be between 0 and 1"
    ELSE NoError

\* validateConfig: the error it returns, or NoError.
validateConfig(c) ==
    IF c.Writer = NilWriter THEN "log writer is not set"
    ELSE IF c.AsyncBufferSize <= 0 THEN "async buffer size must be greater than 0"
    ELSE IF c.FlushInterval <= 0 THEN "flush interval must be greater than 0"
    ELSE IF c.Sampling.Rate < 0 \/ c.Sampling.Rate > RateDen
         THEN "sampling rate must be between 0 and 1"
    ELSE NoError

\* createHandler: a text or JSON handler on the writer, nil for any other encoder.
NilHandler == [kind |-> "nil", w |-> NilWriter]
createHandler(c) ==
    IF c.Encoder = TextEncoder THEN [kind |-> TextEncoder, w |-> c.Writer]
    ELSE IF c.Encoder = JSONEncoder THEN [kind |-> JSONEncoder, w |-> c.Writer]
    ELSE NilHandler

\* The rate NewSlogLogger gives to the sampler it makes.
newSamplerRate(c) ==
    IF c.Sampling.Type = RateSamplerType THEN c.Sampling.Rate ELSE RateDen

\* The rate UpdateConfig gives to the sampler it makes.
updateSamplerRate(c) ==
    IF c.Sampling.Type = RateSamplerType
    THEN (IF c.Sampling.Rate > 0 /\ c.Sampling.Rate <= RateDen THEN c.Sampling.Rate
          ELSE RateDen)
    ELSE RateDen

\* The config of the logger the logger model starts with: threshold l, rate k/RateDen.
LoggerConfig(l, k) ==
    [Level |-> l, Encoder |-> TextEncoder, Writer |-> "w1",
     AsyncBufferSize |-> AsyncBufferSize, FlushInterval |-> 1,
     Sampling |-> [Type |-> RateSamplerType, Rate |-> k]]

NoSnapshot == <<>>

(* --------------------------- construction ------------------------------ *)
\* The logger that NewSlogLogger(c) returns for a valid config c: the level,
\* the sampler and the handler of the config, no UpdateConfig call made.
Constructed(c) ==
    /\ config = c
    /\ handler = createHandler(c)
    /\ level = c.Level
    /\ sIn = newSamplerRate(c)
    /\ rate \in RateToUint(newSamplerRate(c))
    /\ arg = c
    /\ callRet = "ok"
    /\ upc = "idle"
    /\ uOld = NoSnapshot

\* NewSlogLogger with a valid config, apart from what Constructed says: an
\* empty channel, done open, the consumer started.
InitLogger ==
    /\ buffer = <<>>
    /\ done = FALSE
    /\ records = <<>>
    /\ cpc = "select"
    /\ written = <<>>
    /\ internalErrors = <<>>
    /\ closePc = "idle"
    /\ flushPc = [c \in Flushers |-> "idle"]
    /\ flushSnap = [c \in Flushers |-> {}]
    /\ closeSnap = {}
    /\ nLogs = [p \in Producers |-> 0]
    /\ enqueued = {}
    /\ event = Op("NewSlogLogger")

\* The sampler variables of a state in which no Sample call has been made.
NoSample == sDraw = -1 /\ sOut = FALSE

\* The zero time.Time of a new JitterSampler: further in the past than the
\* interval, whatever the clock reads.
ZeroTime == -JitterInterval

\* NewJitterSampler(k/RateDen, JitterInterval), before any Sample call.
NewJitterSampler(k) ==
    /\ jClock = 0
    /\ jRate = k
    /\ lastSample = ZeroTime
    /\ jPc = [g \in Samplers |-> "idle"]
    /\ jNow = [g \in Samplers |-> 0]
    /\ jAccepted = <<>>
    /\ jCalls = 0

\* The JitterSampler as it is when a specification leaves it alone.
JitterIdle == NewJitterSampler(RateDen)

\* A writer on which no Handle call fails.
Healthy == faulty = FALSE

\* No file at config.Filename: Rotate has renamed it and could not reopen it.
NoFile == -1

\* What zLast says of a call: Write's n and err, whether Rotate ran in it, on
\* an active file of which size, to which rotated name, and whether it
\* returned nil.
ZapCall(name, n, err, rotated, atRotation, target, rotOk) ==
    [op |-> name, n |-> n, err |-> err, rotated |-> rotated,
     atRotation |-> atRotation, target |-> target, rotOk |-> rotOk]

\* RotatorConfig as far as Rotate reads it, beside Filename and MaxSize.
RotatorConfig(maxBackups, maxAge) == [MaxBackups |-> maxBackups, MaxAge |-> maxAge]

\* NewZapRotator(cfg) on a file that holds s bytes: the file is opened for
\* appending and the counter starts at its size.
NewZapRotator(cfg, s) ==
    /\ zConfig = cfg
    /\ zHeld = "none"
    /\ zSize = s
    /\ zWriter = "open"
    /\ zFile = s
    /\ zMod = 0
    /\ zClock = 0
    /\ zBackups = {}
    /\ zLast = ZapCall("NewZapRotator", 0, FALSE, FALSE, 0, 0, FALSE)

\* The ZapRotator as it is when a specification leaves it alone.
ZapIdle == NewZapRotator(RotatorConfig(0, 0), 0)

\* The names of the files of a CustomRotator: params.Filename; the name
\* rotationFunc gives in an hour, and the names getWriterInternal derives
\* from it with a sequence number; the name the lumberjack logger gives a
\* file it rotates away.  No open file: nil.
ParamsFilename == <<"params", 0, 0>>
RotationName(hour, seq) == <<"rotation", hour, seq>>
BackupName == <<"backup", 0, 0>>
NilFile == 0

\* NewCustomRotator(params): no file is open, logger.Filename is
\* params.Filename, the buffer and the channel are empty; an empty directory.
NewCustomRotator ==
    /\ custom = [files |-> <<>>, currentFile |-> NilFile,
                 currentName |-> ParamsFilename, lumberFile |-> NilFile,
                 lumberSize |-> 0, Filename |-> ParamsFilename,
                 buffer |-> <<>>, writeChannel |-> <<>>]
    /\ crHour = 0
    /\ crSent = 0
    /\ crFlushed = {}

\* What clLast says of a Cleanup call.
NoCall == [op |-> "none", err |-> FALSE, worked |-> FALSE]
CleanupCall(name, files, compressed, removed, err, bad, prev) ==
    [op |-> name, files |-> files, compressed |-> compressed,
     removed |-> removed, err |-> err, bad |-> bad, prev |-> prev]

\* A CustomRotator with the three limits, on a directory, before any Cleanup.
CleanupReady(notCompressed, maxBackups, maxAge, dir, now) ==
    /\ clConfig = [notCompressed |-> notCompressed, maxBackups |-> maxBackups,
                   maxAge |-> maxAge]
    /\ clDir = dir
    /\ clNow = now
    /\ clLast = CleanupCall("NewCustomRotator", <<>>, {}, {}, FALSE, {}, NoCall)

CleanupIdle == CleanupReady(0, 0, 0, {}, 0)

\* The retry policies: NoRetryPolicy, SimpleRetryPolicy with MaxAttempts and
\* WaitTime, ExponentialBackoffRetryPolicy with BaseWaitTime and MaxAttempts.
NoRetryPolicy == [kind |-> "NoRetryPolicy", MaxAttempts |-> 0, WaitTime |-> 0]
SimpleRetryPolicy(maxAttempts, waitTime) ==
    [kind |-> "SimpleRetryPolicy", MaxAttempts |-> maxAttempts, WaitTime |-> waitTime]
ExponentialBackoffRetryPolicy(baseWaitTime, maxAttempts) ==
    [kind |-> "ExponentialBackoffRetryPolicy", MaxAttempts |-> maxAttempts,
     WaitTime |-> baseWaitTime]
RetryPolicies ==
    {NoRetryPolicy}
    \cup {SimpleRetryPolicy(n, w) : n \in 0..RetryMaxAttempts, w \in 0..RetryMaxWait}
    \cup {ExponentialBackoffRetryPolicy(w, n) :
              w \in 0..RetryMaxWait, n \in 0..RetryMaxAttempts}

\* opts of BulkWriteWithRetry: nil, or options with a RetryPolicy.
NilOptions == [kind |-> "nil", MaxAttempts |-> 0, WaitTime |-> 0]
NoResult == [returned |-> FALSE, nil |-> FALSE, wraps |-> 0]

\* BulkWriteWithRetry(ctx, coll, models, opts), just called.
BulkWriteWithRetryCalled(opts) ==
    /\ rOpts = opts
    /\ rPc = "call"
    /\ rAttempt = 1
    /\ rOutcomes = <<>>
    /\ rSlept = <<>>
    /\ rResult = NoResult

RetryIdle == BulkWriteWithRetryCalled(NilOptions)

\* A policy none of whose methods has been called.
PolicyMade(policy) == pPolicy = policy /\ pOut = <<>>

PolicyIdle == PolicyMade(NoRetryPolicy)

\* The components that the specifications of the logger, the samplers and
\* the ZapRotator leave alone.
CustomIdle == NewCustomRotator
\* Compress(param) just called on a source whose files have the sizes given,
\* in the order filepath.Walk visits them: nothing is walked or written yet.
CompressCalled(format, source) ==
    /\ aFormat = format
    /\ aSource = source
    /\ aWalk = 1
    /\ aCopy = [i \in 1..Len(source) |-> "none"]
    /\ aArchive = <<>>
    /\ aPc = "walk"
    /\ aErr = FALSE

CompressIdle == CompressCalled(".gz", <<0>>)

\* A logger as WithTrace and WithMetadata build it, and the value of
\* newLogger while none was derived.
NilSampler == "nil"
NoNewLogger ==
    [made |-> FALSE, handler |-> NilHandler, level |-> Debug, sampler |-> NilSampler]
DerivedIdle == newLogger = NoNewLogger /\ dRet = "none"

\* The callers of Watch; each calls it once, with a ctx of its own.
WatchCallers == {1, 2}

\* NewBaseConfig has returned: the first configuration is loaded, nobody
\* watches.
NewBaseConfig ==
    /\ watchers = <<>>
    /\ stopCh = FALSE
    /\ bcValue = 0
    /\ wPc = [w \in WatchCallers |-> "idle"]
    /\ wCh = [w \in WatchCallers |-> [buf |-> <<>>, closed |-> FALSE]]
    /\ wCtx = [w \in WatchCallers |-> "live"]
    /\ wErr = "none"

WatchIdle == NewBaseConfig

LateIdle == CompressIdle /\ DerivedIdle /\ WatchIdle
ExtIdle == CustomIdle /\ CleanupIdle /\ RetryIdle /\ PolicyIdle /\ LateIdle

\* The logger starts with the threshold at Info; SetLevel moves it to every level.
Init ==
    /\ InitLogger
    /\ \E k \in ConfigRateNums : Constructed(LoggerConfig(Info, k))
    /\ NoSample
    /\ JitterIdle
    /\ Healthy
    /\ ZapIdle
    /\ ExtIdle

(* ----------------------------- writeBatch ------------------------------ *)
\* writeBatch: every record of the batch is passed to the handler, in order.
writeBatch(w, batch) == w \o batch

\* The records of the batch at the positions F, in order.
RECURSIVE Pick(_, _, _)
Pick(batch, F, i) ==
    IF i > Len(batch) THEN <<>>
    ELSE (IF i \in F THEN <<batch[i]>> ELSE <<>>) \o Pick(batch, F, i + 1)

\* writeBatch, lines 143-145: each Handle call of the batch can fail when the
\* writer is faulty, and each failure is given to logInternalError; the loop
\* goes on to the next record.
writeBatchErrors(batch) ==
    \E F \in (IF faulty THEN SUBSET (1..Len(batch)) ELSE {{}}) :
        internalErrors' = internalErrors \o Pick(batch, F, 1)

(* ----------------------------- log ------------------------------------- *)
\* A select whose default case is missing: no case can proceed, and the call
\* waits, when the channel is full and done is open.
logSelectNoDefault(buf, dn) ==
    (IF Len(buf) < AsyncBufferSize THEN {"send"} ELSE {}) \cup
    (IF dn THEN {"done"} ELSE {})

\* The cases of log's select that can proceed: the send when the channel has
\* room, the receive from done when it is closed, the default otherwise.
logSelect(buf, dn) ==
    LET ready == (IF Len(buf) < AsyncBufferSize THEN {"send"} ELSE {}) \cup
                 (IF dn THEN {"done"} ELSE {})
    IN IF ready = {} THEN {"default"} ELSE ready

\* A filter that is off by one level: a call one level below the threshold passes.
logFilteredOffByOne(current, lvl) == levelOrder[current] > levelOrder[lvl] + 1

\* The severity filter of log: the call returns at once when it holds.
logFiltered(current, lvl) == IsHighThan(current, lvl)

\* Sampling that reaches one level too far: Error is sampled too.
logSamplesError(lvl) == IsLowerOrEqualThan(lvl, Error)

\* Whether log consults the sampler for this level.
logSamples(lvl) == IsLowerOrEqualThan(lvl, Warn)

\* log(ctx, level, msg, fields...) called by producer p, as one step: the
\* threshold is read, the sampler is consulted and the select is made.  (The
\* os.Exit that Fatal and FatalContext make after log is not part of log.)
log(p, lvl) ==
    /\ TotalLogs < MaxLogs
    /\ nLogs' = [nLogs EXCEPT ![p] = @ + 1]
    /\ LET rec == Record(p, nLogs[p] + 1)
           ret(consulted, accepted, fate) ==
               event' = [op |-> "log", p |-> p, level |-> lvl, consulted |-> consulted,
                         accepted |-> accepted, fate |-> fate]
       IN
       IF logFiltered(level, lvl) THEN
            /\ ret(FALSE, FALSE, "filtered")
            /\ UNCHANGED <<buffer, written, enqueued>>
       ELSE \E draw \in (IF logSamples(lvl) THEN Draws ELSE {0}) :
            IF logSamples(lvl) /\ ~Sample(draw, rate) THEN
                /\ ret(TRUE, FALSE, "sampled_out")
                /\ UNCHANGED <<buffer, written, enqueued>>
            ELSE \E case \in logSelect(buffer, done) :
                CASE case = "send" ->
                        /\ buffer' = Append(buffer, rec)
                        /\ enqueued' = enqueued \cup {rec}
                        /\ ret(logSamples(lvl), logSamples(lvl), "enqueued")
                        /\ UNCHANGED written
                  [] case = "done" ->
                        /\ ret(logSamples(lvl), logSamples(lvl), "closed")
                        /\ UNCHANGED <<buffer, written, enqueued>>
                  [] case = "default" ->
                        /\ written' = Append(written, rec)
                        /\ ret(logSamples(lvl), logSamples(lvl), "direct")
                        /\ UNCHANGED <<buffer, enqueued>>
    /\ UNCHANGED <<done, records, cpc, level, rate, closePc, flushPc, flushSnap, closeSnap>>
    /\ UNCHANGED <<samplerVars, auxVars>>

\* A SetLevel that filters again what is buffered: raising the threshold
\* removes the records waiting in the channel.
SetLevelRefilters(lvl) ==
    /\ level' = lvl
    /\ buffer' = IF IsHighThan(lvl, level)
                 THEN SelectSeq(buffer, LAMBDA r : r.kind # "rec") ELSE buffer
    /\ event' = Op("SetLevel")
    /\ UNCHANGED <<done, records, cpc, written, rate, closePc, flushPc,
                   flushSnap, closeSnap, nLogs, enqueued>>
    /\ UNCHANGED <<samplerVars, auxVars>>

\* SetLevel.
SetLevel(lvl) ==
    /\ level' = lvl
    /\ event' = Op("SetLevel")
    /\ UNCHANGED <<buffer, done, records, cpc, written, rate, closePc, flushPc,
                   flushSnap, closeSnap, nLogs, enqueued>>
    /\ UNCHANGED <<samplerVars, auxVars>>

\* A size trigger that is off by one: the batch is written only once it holds
\* more than AsyncBufferSize records.
batchFullOffByOne(n) == n > AsyncBufferSize

\* processLogs, line 120: the batch, of n records after the append, has reached
\* config.AsyncBufferSize.
batchFull(n) == n >= AsyncBufferSize

(* ----------------------------- processLogs ----------------------------- *)
\* case record := <-l.buffer
processLogsRecord ==
    /\ cpc = "select"
    /\ Len(buffer) > 0
    /\ LET record == Head(buffer) IN
       /\ buffer' = Tail(buffer)
       /\ IF record.kind = "FLUSH_SIGNAL" THEN
            /\ written' = writeBatch(written, records)
            /\ writeBatchErrors(records)
            /\ records' = <<>>
            /\ cpc' = "ack"
          ELSE
            /\ IF batchFull(Len(records) + 1) THEN
                    /\ written' = writeBatch(written, Append(records, record))
                    /\ writeBatchErrors(Append(records, record))
                    /\ records' = <<>>
               ELSE
                    /\ records' = Append(records, record)
                    /\ UNCHANGED <<written, internalErrors>>
            /\ UNCHANGED cpc
    /\ event' = Op("record")
    /\ UNCHANGED <<done, level, rate, closePc, flushPc, flushSnap, closeSnap, nLogs, enqueued>>
    /\ UNCHANGED <<samplerVars, jitterVars, configVars, faulty, zapVars, extVars>>

\* l.buffer <- slog.Record{}: the send that follows a flush; it waits for room.
processLogsAck ==
    /\ cpc = "ack"
    /\ Len(buffer) < AsyncBufferSize
    /\ buffer' = Append(buffer, EmptyRecord)
    /\ cpc' = "select"
    /\ event' = Op("ack")
    /\ UNCHANGED <<done, records, written, level, rate, closePc, flushPc,
                   flushSnap, closeSnap, nLogs, enqueued>>
    /\ UNCHANGED <<samplerVars, auxVars>>

\* A ticker case that writes the batch and forgets to empty it.
processLogsTickKeepsBatch ==
    /\ cpc = "select"
    /\ IF Len(records) > 0 THEN
            /\ written' = writeBatch(written, records)
            /\ writeBatchErrors(records)
            /\ UNCHANGED records
       ELSE UNCHANGED <<written, records, internalErrors>>
    /\ event' = Op("tick")
    /\ UNCHANGED <<buffer, done, cpc, level, rate, closePc, flushPc, flushSnap,
                   closeSnap, nLogs, enqueued>>
    /\ UNCHANGED <<samplerVars, jitterVars, configVars, faulty, zapVars, extVars>>

\* A ticker case that keeps in the batch the records whose write failed, to
\* write them again.
processLogsTickRetries ==
    /\ cpc = "select"
    /\ IF Len(records) > 0 THEN
            /\ written' = writeBatch(written, records)
            /\ \E F \in (IF faulty THEN SUBSET (1..Len(records)) ELSE {{}}) :
                /\ internalErrors' = internalErrors \o Pick(records, F, 1)
                /\ records' = Pick(records, F, 1)
       ELSE UNCHANGED <<written, records, internalErrors>>
    /\ event' = Op("tick")
    /\ UNCHANGED <<buffer, done, cpc, level, rate, closePc, flushPc, flushSnap,
                   closeSnap, nLogs, enqueued>>
    /\ UNCHANGED <<samplerVars, jitterVars, configVars, faulty, zapVars, extVars>>

\* case <-ticker.C
processLogsTick ==
    /\ cpc = "select"
    /\ IF Len(records) > 0 THEN
            /\ written' = writeBatch(written, records)
            /\ writeBatchErrors(records)
            /\ records' = <<>>
       ELSE UNCHANGED <<written, records, internalErrors>>
    /\ event' = Op("tick")
    /\ UNCHANGED <<buffer, done, cpc, level, rate, closePc, flushPc, flushSnap,
                   closeSnap, nLogs, enqueued>>
    /\ UNCHANGED <<samplerVars, jitterVars, configVars, faulty, zapVars, extVars>>

\* case <-l.done
processLogsDone ==
    /\ cpc = "select"
    /\ done
    /\ IF Len(records) > 0
       THEN written' = writeBatch(written, records) /\ writeBatchErrors(records)
       ELSE UNCHANGED <<written, internalErrors>>
    /\ cpc' = "exit"
    /\ event' = Op("done")
    /\ UNCHANGED <<buffer, done, records, level, rate, closePc, flushPc,
                   flushSnap, closeSnap, nLogs, enqueued>>
    /\ UNCHANGED <<samplerVars, jitterVars, configVars, faulty, zapVars, extVars>>

(* ----------------------------- Flush, Close ---------------------------- *)
\* Flush called by c: the marker is sent when the channel has room, and the
\* caller then waits on its flushDone channel; otherwise it returns at once.
Flush(c) ==
    /\ flushPc[c] = "idle"
    /\ flushSnap' = [flushSnap EXCEPT ![c] = enqueued]
    /\ IF Len(buffer) < AsyncBufferSize THEN
            /\ buffer' = Append(buffer, FlushSignal)
            /\ flushPc' = [flushPc EXCEPT ![c] = "waiting"]
       ELSE
            /\ flushPc' = [flushPc EXCEPT ![c] = "returned"]
            /\ UNCHANGED buffer
    /\ event' = Op("Flush")
    /\ UNCHANGED <<done, records, cpc, written, level, rate, closePc, closeSnap,
                   nLogs, enqueued>>
    /\ UNCHANGED <<samplerVars, auxVars>>

\* Close: close(l.done), then l.wg.Wait().
Close ==
    /\ closePc = "idle"
    /\ done' = TRUE
    /\ closePc' = "waiting"
    /\ closeSnap' = enqueued
    /\ event' = Op("Close")
    /\ UNCHANGED <<buffer, records, cpc, written, level, rate, flushPc, flushSnap,
                   nLogs, enqueued>>
    /\ UNCHANGED <<samplerVars, auxVars>>

\* l.wg.Wait() returns once processLogs has run its deferred wg.Done().
CloseReturn ==
    /\ closePc = "waiting"
    /\ cpc = "exit"
    /\ closePc' = "returned"
    /\ event' = Op("CloseReturn")
    /\ UNCHANGED <<buffer, done, records, cpc, written, level, rate, flushPc,
                   flushSnap, closeSnap, nLogs, enqueued>>
    /\ UNCHANGED <<samplerVars, auxVars>>

Next ==
    \/ \E p \in Producers, lvl \in Levels : log(p, lvl)
    \/ \E lvl \in Levels : SetLevel(lvl)
    \/ processLogsRecord
    \/ processLogsAck
    \/ processLogsTick
    \/ processLogsDone
    \/ \E c \in Flushers : Flush(c)
    \/ Close
    \/ CloseReturn

Spec == Init /\ [][Next]_vars

\* The Go scheduler runs every runnable goroutine, and select picks among its
\* ready cases at random, so no case that stays ready is passed over forever.
FairSpec ==
    /\ Spec
    /\ WF_vars(processLogsRecord)
    /\ WF_vars(processLogsAck)
    /\ WF_vars(processLogsDone)
    /\ WF_vars(CloseReturn)

\* The logger on a writer on which any Handle call can fail.
FaultInit ==
    /\ InitLogger
    /\ Constructed(LoggerConfig(Debug, RateDen))
    /\ NoSample
    /\ JitterIdle
    /\ faulty = TRUE
    /\ ZapIdle
    /\ ExtIdle

\* The threshold stays at Debug, so that every call passes the filter.
FaultNext ==
    \/ \E p \in Producers, lvl \in Levels : log(p, lvl)
    \/ processLogsRecord
    \/ processLogsAck
    \/ processLogsTick
    \/ processLogsDone
    \/ \E c \in Flushers : Flush(c)
    \/ Close
    \/ CloseReturn

FaultSpec == FaultInit /\ [][FaultNext]_vars

(* ----------------------------- RateSampler ----------------------------- *)
\* NewRateSampler(rate) with a rate of a valid config, and no logger calls: the
\* logger stays as constructed.
SamplerInit ==
    /\ InitLogger
    /\ \E k \in ValidRateNums : Constructed(LoggerConfig(Info, k))
    /\ NoSample
    /\ JitterIdle
    /\ Healthy
    /\ ZapIdle
    /\ ExtIdle

\* RateSampler.SetRate(k/RateDen).
SetRate(k) ==
    /\ sIn' = k
    /\ rate' \in RateToUint(k)
    /\ sDraw' = -1
    /\ sOut' = FALSE
    /\ UNCHANGED <<buffer, done, records, cpc, written, level, closePc, flushPc,
                   flushSnap, closeSnap, nLogs, enqueued, event>>
    /\ UNCHANGED auxVars

\* RateSampler.Sample(): one draw of rand.Uint64() against the stored rate.
SampleCall ==
    /\ \E draw \in Draws :
        /\ sDraw' = draw
        /\ sOut' = Sample(draw, rate)
    /\ UNCHANGED <<buffer, done, records, cpc, written, level, closePc, flushPc,
                   flushSnap, closeSnap, nLogs, enqueued, event, sIn, rate>>
    /\ UNCHANGED auxVars

SamplerNext ==
    \/ \E k \in RateNums : SetRate(k)
    \/ SampleCall

SamplerSpec == SamplerInit /\ [][SamplerNext]_vars

(* --------------------------- JitterSampler ----------------------------- *)
\* The values of rand.Float64(), in [0, 1), as numerators over RateDen.
JitterDraws == 0..(RateDen - 1)

\* The logger and the RateSampler as the JitterSampler specification leaves them.
JitterInit ==
    /\ InitLogger
    /\ Constructed(LoggerConfig(Info, RateDen))
    /\ NoSample
    /\ Healthy
    /\ ZapIdle
    /\ ExtIdle
    /\ \E k \in ValidRateNums : NewJitterSampler(k)

\* The clock advances.
JitterTick ==
    /\ jClock < MaxTime
    /\ jClock' = jClock + 1
    /\ UNCHANGED <<jRate, lastSample, jPc, jNow, jAccepted, jCalls>>
    /\ UNCHANGED <<loggerVars, samplerVars, configVars, faultVars, zapVars, extVars>>

\* Sample, line 75: now := time.Now().
JitterNow(g) ==
    /\ jPc[g] = "idle"
    /\ jCalls < MaxSamples
    /\ jCalls' = jCalls + 1
    /\ jNow' = [jNow EXCEPT ![g] = jClock]
    /\ jPc' = [jPc EXCEPT ![g] = "gate"]
    /\ UNCHANGED <<jClock, jRate, lastSample, jAccepted>>
    /\ UNCHANGED <<loggerVars, samplerVars, configVars, faultVars, zapVars, extVars>>

\* Sample, lines 76-78: the read of lastSample, made without synchronisation;
\* the call returns false when the interval has not elapsed.  A read that
\* races with a write sees the value before or after it, as the interleaving
\* of the steps has it.
JitterGate(g) ==
    /\ jPc[g] = "gate"
    /\ jPc' = [jPc EXCEPT ![g] =
                 IF jNow[g] - lastSample < JitterInterval THEN "idle" ELSE "rate"]
    /\ UNCHANGED <<jClock, jRate, lastSample, jNow, jAccepted, jCalls>>
    /\ UNCHANGED <<loggerVars, samplerVars, configVars, faultVars, zapVars, extVars>>

\* Sample, lines 79-83: the draw against the rate; on success lastSample is
\* written, without synchronisation, and the call returns true.
JitterRate(g) ==
    /\ jPc[g] = "rate"
    /\ \E d \in JitterDraws :
         IF d < jRate
         THEN /\ lastSample' = jNow[g]
              /\ jAccepted' = Append(jAccepted, jNow[g])
         ELSE UNCHANGED <<lastSample, jAccepted>>
    /\ jPc' = [jPc EXCEPT ![g] = "idle"]
    /\ UNCHANGED <<jClock, jRate, jNow, jCalls>>
    /\ UNCHANGED <<loggerVars, samplerVars, configVars, faultVars, zapVars, extVars>>

JitterNext ==
    \/ JitterTick
    \/ \E g \in Samplers : JitterNow(g)
    \/ \E g \in Samplers : JitterGate(g)
    \/ \E g \in Samplers : JitterRate(g)

JitterSpec == JitterInit /\ [][JitterNext]_vars

(* ------------------- NewSlogLogger and UpdateConfig -------------------- *)
\* The variables of the logger that neither NewSlogLogger nor UpdateConfig touches.
channelVars == <<buffer, done, records, written, closePc, flushPc, flushSnap,
                 closeSnap, nLogs, enqueued>>

\* Before NewSlogLogger is called: no logger, no consumer goroutine (cpc is
\* "none"); the fields of the logger to be have their zero values.
NoLogger ==
    /\ buffer = <<>>
    /\ done = FALSE
    /\ records = <<>>
    /\ cpc = "none"
    /\ written = <<>>
    /\ internalErrors = <<>>
    /\ closePc = "idle"
    /\ flushPc = [c \in Flushers |-> "idle"]
    /\ flushSnap = [c \in Flushers |-> {}]
    /\ closeSnap = {}
    /\ nLogs = [p \in Producers |-> 0]
    /\ enqueued = {}
    /\ event = Op("none")
    /\ level = Debug
    /\ sIn = 0 /\ rate = 0
    /\ config = LoggerConfig(Debug, 0)
    /\ handler = NilHandler
    /\ arg = LoggerConfig(Debug, 0)
    /\ callRet = "none"
    /\ upc = "idle"
    /\ uOld = NoSnapshot

CtorInit ==
    /\ NoLogger
    /\ NoSample
    /\ JitterIdle
    /\ Healthy
    /\ ZapIdle
    /\ ExtIdle

\* NewSlogLogger(c): validateConfig first, and its error returned; then the
\* handler and the sampler are made and stored (storing the nil handler of an
\* encoder that is neither text nor JSON panics in atomic.Value.Store), and
\* last the consumer goroutine is started.
NewSlogLogger(c) ==
    /\ cpc = "none" /\ callRet = "none"
    /\ arg' = c
    /\ IF validateConfig(c) # NoError THEN
            /\ callRet' = "error"
            /\ UNCHANGED <<config, handler, level, sIn, rate, cpc>>
       ELSE IF createHandler(c) = NilHandler THEN
            /\ callRet' = "panic"
            /\ UNCHANGED <<config, handler, level, sIn, rate, cpc>>
       ELSE
            /\ config' = c
            /\ handler' = createHandler(c)
            /\ level' = c.Level
            /\ sIn' = newSamplerRate(c)
            /\ rate' \in RateToUint(newSamplerRate(c))
            /\ cpc' = "select"
            /\ callRet' = "ok"
    /\ event' = Op("NewSlogLogger")
    /\ UNCHANGED <<upc, uOld, sDraw, sOut>>
    /\ UNCHANGED <<channelVars, jitterVars, faultVars, zapVars, extVars>>

\* UpdateConfig(c), lines 346-349: validateConfig, and its error returned.
UpdateConfigCall(c) ==
    /\ cpc # "none" /\ upc = "idle"
    /\ arg' = c
    /\ uOld' = <<level, sIn, handler, config>>
    /\ IF validateConfig(c) # NoError
       THEN callRet' = "error" /\ upc' = "done"
       ELSE callRet' = "none" /\ upc' = "level"
    /\ event' = Op("UpdateConfig")
    /\ UNCHANGED <<config, handler, level, sIn, rate, cpc, sDraw, sOut>>
    /\ UNCHANGED <<channelVars, jitterVars, faultVars, zapVars, extVars>>

\* UpdateConfig, lines 351-356: the level is stored when it differs from the
\* level of the stored config.
UpdateConfigLevel ==
    /\ upc = "level"
    /\ level' = IF arg.Level # config.Level THEN arg.Level ELSE level
    /\ upc' = "sampler"
    /\ event' = Op("UpdateConfig")
    /\ UNCHANGED <<config, handler, arg, callRet, uOld, sIn, rate, cpc, sDraw, sOut>>
    /\ UNCHANGED <<channelVars, jitterVars, faultVars, zapVars, extVars>>

\* UpdateConfig, lines 359-378: a new sampler is assigned to l.sampler when
\* the sampling part differs from that of the stored config.
UpdateConfigSampler ==
    /\ upc = "sampler"
    /\ IF arg.Sampling # config.Sampling
       THEN /\ sIn' = updateSamplerRate(arg)
            /\ rate' \in RateToUint(updateSamplerRate(arg))
       ELSE UNCHANGED <<sIn, rate>>
    /\ upc' = "handler"
    /\ event' = Op("UpdateConfig")
    /\ UNCHANGED <<config, handler, arg, callRet, uOld, level, cpc, sDraw, sOut>>
    /\ UNCHANGED <<channelVars, jitterVars, faultVars, zapVars, extVars>>

\* UpdateConfig, lines 381-384: a new handler is stored when the encoder or
\* the writer differs; storing the nil handler panics.
UpdateConfigHandler ==
    /\ upc = "handler"
    /\ IF arg.Encoder # config.Encoder \/ arg.Writer # config.Writer
       THEN IF createHandler(arg) = NilHandler
            THEN callRet' = "panic" /\ upc' = "done" /\ UNCHANGED handler
            ELSE handler' = createHandler(arg) /\ upc' = "config" /\ UNCHANGED callRet
       ELSE upc' = "config" /\ UNCHANGED <<handler, callRet>>
    /\ event' = Op("UpdateConfig")
    /\ UNCHANGED <<config, arg, uOld, level, sIn, rate, cpc, sDraw, sOut>>
    /\ UNCHANGED <<channelVars, jitterVars, faultVars, zapVars, extVars>>

\* UpdateConfig, lines 386-387: the config is stored and nil returned.
UpdateConfigStore ==
    /\ upc = "config"
    /\ config' = arg
    /\ callRet' = "ok"
    /\ upc' = "done"
    /\ event' = Op("UpdateConfig")
    /\ UNCHANGED <<handler, arg, uOld, level, sIn, rate, cpc, sDraw, sOut>>
    /\ UNCHANGED <<channelVars, jitterVars, faultVars, zapVars, extVars>>

\* Construction and one UpdateConfig call, with every config of Configs.
CtorNext ==
    \/ \E c \in Configs : NewSlogLogger(c)
    \/ \E c \in Configs : UpdateConfigCall(c)
    \/ UpdateConfigLevel
    \/ UpdateConfigSampler
    \/ UpdateConfigHandler
    \/ UpdateConfigStore

CtorSpec == CtorInit /\ [][CtorNext]_vars

\* One UpdateConfig call with a config that passes validation, made while the
\* producer logs and the consumer runs.
UpdateInit ==
    /\ InitLogger
    /\ \E k \in ConfigRateNums : Constructed(LoggerConfig(Info, k))
    /\ NoSample
    /\ JitterIdle
    /\ Healthy
    /\ ZapIdle
    /\ ExtIdle

UpdateNext ==
    \/ \E c \in Configs : validateConfig(c) = NoError /\ UpdateConfigCall(c)
    \/ UpdateConfigLevel
    \/ UpdateConfigSampler
    \/ UpdateConfigHandler
    \/ UpdateConfigStore
    \/ \E p \in Producers, lvl \in Levels : log(p, lvl)
    \/ processLogsRecord

UpdateSpec == UpdateInit /\ [][UpdateNext]_vars

(* ----------------------------- ZapRotator ------------------------------ *)
ZapInit ==
    /\ InitLogger
    /\ Constructed(LoggerConfig(Info, RateDen))
    /\ NoSample
    /\ JitterIdle
    /\ Healthy
    /\ \E mb \in 0..MaxBackups, ma \in 0..MaxAgeDays, s \in 0..MaxExisting :
          NewZapRotator(RotatorConfig(mb, ma), s)
    /\ ExtIdle

\* filepath.Glob(config.Filename + ".*"): the names of the rotated files, in
\* lexical order, which for the timestamps of Rotate is the order of time.
Glob(backups) ==
    LET names == {b.name : b \in backups}
    IN  CHOOSE m \in [1..Cardinality(names) -> names] :
            \A i, j \in 1..Cardinality(names) : i < j => m[i] < m[j]

\* cleanOldLogs at instant now: every match whose ModTime is more than MaxAge
\* days back is removed; then, when MaxBackups > 0 and there are more matches
\* than that, the matches after the first MaxBackups are removed.
cleanOldLogs(cfg, backups, now) ==
    LET matches == Glob(backups)
        aged == {b \in backups : now - b.mod > cfg.MaxAge * DayTicks}
        beyond == IF cfg.MaxBackups > 0 /\ Len(matches) > cfg.MaxBackups
                  THEN {matches[i] : i \in (cfg.MaxBackups + 1)..Len(matches)}
                  ELSE {}
    IN  {b \in backups \ aged : b.name \notin beyond}

\* The name Rotate gives the rotated file at instant now: the timestamp, to
\* the second.
newName(now) == now \div SecondTicks

\* os.Rename of a file of `file` bytes to name: it takes the place of a
\* rotated file of that name.
Rename(backups, name, file, mod) ==
    {b \in backups : b.name # name} \cup {[name |-> name, size |-> file, mod |-> mod]}

\* Rotate at instant now, on an active file of `file` bytes with the counter
\* at `size`: the writer is synced and closed; os.Rename can fail (and does
\* when there is no file), and Rotate then returns with the writer closed and
\* the counter as it was; os.OpenFile can fail likewise, the file renamed;
\* otherwise the new file is the writer, the counter is 0 and cleanOldLogs
\* runs.  The outcomes.
Rotate(cfg, size, file, mod, backups, now) ==
    LET renamed == Rename(backups, newName(now), file, mod)
        renameFails == [size |-> size, writer |-> "closed", file |-> file,
                        mod |-> mod, backups |-> backups, ok |-> FALSE]
        openFails == [size |-> size, writer |-> "closed", file |-> NoFile,
                      mod |-> mod, backups |-> renamed, ok |-> FALSE]
        rotates == [size |-> 0, writer |-> "open", file |-> 0, mod |-> now,
                    backups |-> cleanOldLogs(cfg, renamed, now), ok |-> TRUE]
    IN  IF file = NoFile THEN {renameFails} ELSE {renameFails, openFails, rotates}

\* The writer a caller holds once Rotate has returned: Rotate assigns a new
\* value to r.writer when it succeeds, and the one handed out before is then
\* no longer r.writer.
heldAfter(held, out) == IF out.ok /\ held = "same" THEN "stale" ELSE held

\* r.writer.Write(p) as if a closed file took the bytes.
writerWriteOnClosed(writer, len) == [n |-> len, err |-> FALSE]

\* r.writer.Write(p), len(p) = len: an open file takes the bytes; a closed
\* one takes none and returns an error.
writerWrite(writer, len) ==
    IF writer = "open" THEN [n |-> len, err |-> FALSE] ELSE [n |-> 0, err |-> TRUE]

\* Write(p), len(p) = len: the bytes go to the writer, the counter grows by
\* the bytes written, and Rotate is called when the counter is above the
\* threshold; its error is dropped, and Write returns what the writer did.
ZapWrite(len) ==
    LET n == writerWrite(zWriter, len).n
        err == writerWrite(zWriter, len).err
        size == zSize + n
        file == IF zWriter = "open" THEN zFile + len ELSE zFile
        mod == IF zWriter = "open" THEN zClock ELSE zMod
    IN  /\ IF size > ZapMaxBytes
           THEN \E out \in Rotate(zConfig, size, file, mod, zBackups, zClock) :
                   /\ zSize' = out.size
                   /\ zWriter' = out.writer
                   /\ zFile' = out.file
                   /\ zMod' = out.mod
                   /\ zBackups' = out.backups
                   /\ zHeld' = heldAfter(zHeld, out)
                   /\ zLast' = ZapCall("Write", n, err, TRUE, file,
                                       newName(zClock), out.ok)
           ELSE /\ zSize' = size
                /\ zFile' = file
                /\ zMod' = mod
                /\ zLast' = ZapCall("Write", n, err, FALSE, 0, 0, FALSE)
                /\ UNCHANGED <<zWriter, zBackups, zHeld>>
        /\ UNCHANGED <<zClock, zConfig>>
        /\ UNCHANGED <<loggerVars, samplerVars, jitterVars, configVars, faultVars, extVars>>

\* Rotate() called by the owner of the rotator.
ZapRotate ==
    /\ \E out \in Rotate(zConfig, zSize, zFile, zMod, zBackups, zClock) :
          /\ zSize' = out.size
          /\ zWriter' = out.writer
          /\ zFile' = out.file
          /\ zMod' = out.mod
          /\ zBackups' = out.backups
          /\ zHeld' = heldAfter(zHeld, out)
          /\ zLast' = ZapCall("Rotate", 0, ~out.ok, TRUE, zFile, newName(zClock), out.ok)
    /\ UNCHANGED <<zClock, zConfig>>
    /\ UNCHANGED <<loggerVars, samplerVars, jitterVars, configVars, faultVars, extVars>>

\* An instant passes between two calls.
ZapTick ==
    /\ zClock < ZapMaxTime
    /\ zClock' = zClock + 1
    /\ zLast' = ZapCall("Tick", 0, FALSE, FALSE, 0, 0, FALSE)
    /\ UNCHANGED <<zSize, zWriter, zFile, zMod, zBackups, zConfig, zHeld>>
    /\ UNCHANGED <<loggerVars, samplerVars, jitterVars, configVars, faultVars, extVars>>

ZapNext ==
    \/ \E len \in 1..MaxWrite : ZapWrite(len)
    \/ ZapRotate
    \/ ZapTick

ZapSpec == ZapInit /\ [][ZapNext]_vars

\* The rotator with a caller that writes through the writer of GetWriter.
WriterInit ==
    /\ InitLogger
    /\ Constructed(LoggerConfig(Info, RateDen))
    /\ NoSample
    /\ JitterIdle
    /\ Healthy
    /\ \E s \in 0..MaxExisting : NewZapRotator(RotatorConfig(0, 0), s)
    /\ ExtIdle

\* GetWriter() returns r.writer, the file itself.
GetWriter ==
    /\ zHeld' = "same"
    /\ zLast' = ZapCall("GetWriter", 0, FALSE, FALSE, 0, 0, FALSE)
    /\ UNCHANGED <<zSize, zWriter, zFile, zMod, zBackups, zClock, zConfig>>
    /\ UNCHANGED <<loggerVars, samplerVars, jitterVars, configVars, faultVars, extVars>>

\* Write(p), len(p) = len, on the writer GetWriter returned: it is the Write
\* of the file.  The file that was r.writer before a rotation is closed; the
\* one that is r.writer takes the bytes when it is open.  ZapRotator.Write
\* is not on the way: r.size is left alone and Rotate is not called.
HeldWrite(len) ==
    /\ zHeld # "none"
    /\ zFile + len <= ZapMaxBytes + HeldMaxBytes
    /\ LET writer == IF zHeld = "same" THEN zWriter ELSE "closed"
           n == writerWrite(writer, len).n
           err == writerWrite(writer, len).err
       IN  /\ zFile' = IF writer = "open" THEN zFile + len ELSE zFile
           /\ zMod' = IF writer = "open" THEN zClock ELSE zMod
           /\ zLast' = ZapCall("HeldWrite", n, err, FALSE, 0, 0, FALSE)
    /\ UNCHANGED <<zSize, zWriter, zBackups, zClock, zConfig, zHeld>>
    /\ UNCHANGED <<loggerVars, samplerVars, jitterVars, configVars, faultVars, extVars>>

WriterNext ==
    \/ \E len \in 1..MaxWrite : ZapWrite(len)
    \/ ZapRotate
    \/ ZapTick
    \/ GetWriter
    \/ \E len \in 1..MaxWrite : HeldWrite(len)

WriterSpec == WriterInit /\ [][WriterNext]_vars

(* ---------------------------- CustomRotator ---------------------------- *)
CustomInit ==
    /\ InitLogger
    /\ Constructed(LoggerConfig(Info, RateDen))
    /\ NoSample
    /\ JitterIdle
    /\ Healthy
    /\ ZapIdle
    /\ NewCustomRotator
    /\ CleanupIdle
    /\ RetryIdle
    /\ PolicyIdle
    /\ LateIdle

\* The file of the directory that has the name, NilFile when there is none.
Lookup(files, name) ==
    IF \E i \in 1..Len(files) : files[i].name = name
    THEN CHOOSE i \in 1..Len(files) : files[i].name = name
    ELSE NilFile

\* The lumberjack logger's rotate: it closes its file, renames the file at
\* Filename, when there is one, to a backup name, and creates and opens an
\* empty file at Filename.
LumberRotate(cr) ==
    LET i == Lookup(cr.files, cr.Filename)
        moved == IF i = NilFile THEN cr.files
                 ELSE [cr.files EXCEPT ![i].name = BackupName]
        files == Append(moved, [name |-> cr.Filename, content |-> <<>>])
    IN  [cr EXCEPT !.files = files, !.lumberFile = Len(files), !.lumberSize = 0]

\* The lumberjack logger's Write of one entry: with no file open it opens the
\* file at Filename for appending, or rotates when there is none or the entry
\* would fill it; it rotates when its count of bytes would pass MaxSize; then
\* it writes to the file it holds.
LumberWrite(cr, e) ==
    LET i == Lookup(cr.files, cr.Filename)
        opened == IF cr.lumberFile # NilFile THEN cr
                  ELSE IF i = NilFile \/ Len(cr.files[i].content) + 1 >= CrMaxSize
                       THEN LumberRotate(cr)
                       ELSE [cr EXCEPT !.lumberFile = i,
                                       !.lumberSize = Len(cr.files[i].content)]
        ready == IF opened.lumberSize + 1 > CrMaxSize THEN LumberRotate(opened)
                 ELSE opened
    IN  [ready EXCEPT !.files[ready.lumberFile].content = Append(@, e),
                      !.lumberSize = @ + 1]

\* getWriterInternal's search for the name: the name of the hour, then the
\* names with a sequence number, up to the first that no file has or whose
\* file is below MaxSize.
RECURSIVE filename(_, _, _)
filename(files, hour, seq) ==
    LET i == Lookup(files, RotationName(hour, seq))
    IN  IF i = NilFile \/ Len(files[i].content) < CrMaxSize
        THEN RotationName(hour, seq)
        ELSE filename(files, hour, seq + 1)

\* getWriterInternal: when currentFile is nil or has another name than the
\* one found, it is closed and the file of that name is opened for appending,
\* created if need be, and logger.Filename becomes that name; when
\* os.OpenFile fails currentFile is nil and the error is returned.
getWriterInternal(cr, hour, opens) ==
    LET name == filename(cr.files, hour, 0)
        i == Lookup(cr.files, name)
        files == IF i = NilFile THEN Append(cr.files, [name |-> name, content |-> <<>>])
                 ELSE cr.files
    IN  IF cr.currentFile # NilFile /\ cr.currentName = name THEN [cr |-> cr, err |-> FALSE]
        ELSE IF opens
             THEN [cr |-> [cr EXCEPT !.files = files,
                                     !.currentFile = Lookup(files, name),
                                     !.currentName = name,
                                     !.Filename = name],
                   err |-> FALSE]
             ELSE [cr |-> [cr EXCEPT !.currentFile = NilFile], err |-> TRUE]

\* One Write on io.MultiWriter(cr.currentFile, cr.logger): the entry goes to
\* currentFile, then to the lumberjack logger.
MultiWriterWrite(cr, e) ==
    LumberWrite([cr EXCEPT !.files[cr.currentFile].content = Append(@, e)], e)

RECURSIVE WriteEntries(_, _)
WriteEntries(cr, entries) ==
    IF entries = <<>> THEN cr
    ELSE WriteEntries(MultiWriterWrite(cr, Head(entries)), Tail(entries))

\* flushBuffer: nothing on an empty buffer; when getWriterInternal fails the
\* buffer is kept; otherwise every entry is written to the writer and the
\* buffer is emptied.
flushBuffer(cr, hour, opens) ==
    LET got == getWriterInternal(cr, hour, opens)
    IN  IF cr.buffer = <<>> THEN cr
        ELSE IF got.err THEN got.cr
        ELSE [WriteEntries(got.cr, cr.buffer) EXCEPT !.buffer = <<>>]

\* The entries a flushBuffer call takes out of the buffer.
Flushed(cr, after) == IF after.buffer = <<>> THEN {cr.buffer[i] : i \in 1..Len(cr.buffer)}
                      ELSE {}

CustomUnchanged ==
    UNCHANGED <<loggerVars, samplerVars, jitterVars, configVars, faultVars, zapVars,
                cleanupVars, retryVars, policyVars, lateVars>>

\* logWriter.Write: the entry is sent on writeChannel, which holds
\* BufferSize entries; the call blocks while it is full.
logWriterWrite ==
    /\ crSent < CrMaxEntries
    /\ Len(custom.writeChannel) < CrBufferSize
    /\ custom' = [custom EXCEPT !.writeChannel = Append(@, crSent + 1)]
    /\ crSent' = crSent + 1
    /\ UNCHANGED <<crHour, crFlushed>>
    /\ CustomUnchanged

\* writeWorker, an entry received: it joins the buffer, which is flushed when
\* it holds bufferSize entries.
writeWorkerEntry ==
    /\ custom.writeChannel # <<>>
    /\ \E opens \in BOOLEAN :
          LET got == [custom EXCEPT !.buffer = Append(@, Head(custom.writeChannel)),
                                    !.writeChannel = Tail(@)]
              after == IF Len(got.buffer) >= CrBufferSize
                       THEN flushBuffer(got, crHour, opens) ELSE got
          IN  /\ custom' = after
              /\ crFlushed' = crFlushed \cup
                     (IF Len(got.buffer) >= CrBufferSize THEN Flushed(got, after) ELSE {})
    /\ UNCHANGED <<crHour, crSent>>
    /\ CustomUnchanged

\* writeWorker, a tick of the ticker: the buffer is flushed.
writeWorkerTick ==
    /\ \E opens \in BOOLEAN :
          LET after == flushBuffer(custom, crHour, opens)
          IN  /\ custom' = after
              /\ crFlushed' = crFlushed \cup Flushed(custom, after)
    /\ UNCHANGED <<crHour, crSent>>
    /\ CustomUnchanged

\* CustomRotator.Rotate: currentFile is closed and set to nil, and the
\* lumberjack logger rotates.
CustomRotate ==
    /\ Len(custom.files) < CrMaxFiles
    /\ custom' = LumberRotate([custom EXCEPT !.currentFile = NilFile])
    /\ UNCHANGED <<crHour, crSent, crFlushed>>
    /\ CustomUnchanged

\* An hour passes: rotationFunc gives the next name.
CustomHour ==
    /\ crHour < CrMaxHour
    /\ crHour' = crHour + 1
    /\ UNCHANGED <<custom, crSent, crFlushed>>
    /\ CustomUnchanged

CustomNext ==
    \/ logWriterWrite
    \/ writeWorkerEntry
    \/ writeWorkerTick
    \/ CustomRotate
    \/ CustomHour

CustomSpec == CustomInit /\ [][CustomNext]_vars

(* ------------------------ CustomRotator.Cleanup ------------------------ *)
\* A log file and a compressed file, each known by its ModTime.
LogFile(m) == [mod |-> m, gz |-> FALSE]
GzFile(m) == [mod |-> m, gz |-> TRUE]

\* The directories: every ModTime has a log file, a compressed file or none.
Directories ==
    {{IF kind[m] = "log" THEN LogFile(m) ELSE GzFile(m) :
         m \in {x \in 0..ClMaxMod : kind[x] # "none"}} :
       kind \in [0..ClMaxMod -> {"none", "log", "gz"}]}

CleanupInit ==
    /\ InitLogger
    /\ Constructed(LoggerConfig(Info, RateDen))
    /\ NoSample
    /\ JitterIdle
    /\ Healthy
    /\ ZapIdle
    /\ CustomIdle
    /\ RetryIdle
    /\ PolicyIdle
    /\ LateIdle
    /\ \E nc \in 0..ClMaxCount, mb \in 0..ClMaxCount, ma \in 0..MaxAgeDays,
          dir \in Directories :
          CleanupReady(nc, mb, ma, dir, ClMaxMod)

\* filepath.Glob(dir/*.log) as if it matched the compressed files too.
CleanupGlobAll(dir) == {f.mod : f \in dir}

\* filepath.Glob(dir/*.log): the log files, the compressed ones not among them.
CleanupGlob(dir) == {f.mod : f \in {g \in dir : ~g.gz}}

\* sort.Slice by ModTime, the latest first.
SortByModTime(names) ==
    CHOOSE files \in [1..Cardinality(names) -> names] :
        \A i, j \in 1..Cardinality(names) : i < j => files[i] > files[j]

\* compressFile: the compressed copy is written under the name with the
\* compression suffix, and then the original is removed.
compressFile(dir, file) == (dir \ {LogFile(file)}) \cup {GzFile(file)}

\* The first loop of Cleanup from index i (from 0, as in the code): every
\* file at notCompressed or beyond is compressed; the first failure ends the
\* loop, and Cleanup, with the error.  bad: the files on which compressFile
\* and os.Remove fail.
RECURSIVE compressLoop(_, _, _, _, _)
compressLoop(cfg, dir, files, i, bad) ==
    IF i >= Len(files) THEN [dir |-> dir, compressed |-> {}, err |-> FALSE]
    ELSE IF i >= cfg.notCompressed
         THEN IF files[i + 1] \in bad
              THEN [dir |-> dir, compressed |-> {}, err |-> TRUE]
              ELSE LET rest == compressLoop(cfg, compressFile(dir, files[i + 1]),
                                            files, i + 1, bad)
                   IN  [rest EXCEPT !.compressed = @ \cup {files[i + 1]}]
         ELSE compressLoop(cfg, dir, files, i + 1, bad)

\* The age test of the second loop: the ModTime is more than maxAge days
\* back; gone is what the test gives for a file that is no longer there.
TooOld(cfg, dir, file, now, gone) ==
    IF LogFile(file) \in dir THEN now - file > cfg.maxAge * DayTicks ELSE gone

\* The second loop of Cleanup from index i: every file at maxBackups or
\* beyond, or too old, is removed; os.Remove fails on a bad file and on one
\* that is no longer there, and the first failure ends Cleanup with the error.
RECURSIVE removeLoop(_, _, _, _, _, _, _)
removeLoop(cfg, dir, files, i, now, bad, gone) ==
    IF i >= Len(files) THEN [dir |-> dir, removed |-> {}, err |-> FALSE]
    ELSE IF i >= cfg.maxBackups \/ TooOld(cfg, dir, files[i + 1], now, gone)
         THEN IF files[i + 1] \in bad \/ LogFile(files[i + 1]) \notin dir
              THEN [dir |-> dir, removed |-> {}, err |-> TRUE]
              ELSE LET rest == removeLoop(cfg, dir \ {LogFile(files[i + 1])},
                                          files, i + 1, now, bad, gone)
                   IN  [rest EXCEPT !.removed = @ \cup {files[i + 1]}]
         ELSE removeLoop(cfg, dir, files, i + 1, now, bad, gone)

\* Cleanup: the log files are ranked, the first loop runs and, when it
\* returned no error, the second.
Cleanup(bad, gone) ==
    LET files == SortByModTime(CleanupGlob(clDir))
        first == compressLoop(clConfig, clDir, files, 0, bad)
        second == removeLoop(clConfig, first.dir, files, 0, clNow, bad, gone)
        prev == [op |-> clLast.op, err |-> clLast.err,
                 worked |-> clLast.compressed \cup clLast.removed # {}]
    IN  /\ IF first.err
           THEN /\ clDir' = first.dir
                /\ clLast' = CleanupCall("Cleanup", files, first.compressed, {},
                                         TRUE, bad, prev)
           ELSE /\ clDir' = second.dir
                /\ clLast' = CleanupCall("Cleanup", files, first.compressed,
                                         second.removed, second.err, bad, prev)
        /\ UNCHANGED <<clConfig, clNow>>
        /\ UNCHANGED <<loggerVars, samplerVars, jitterVars, configVars, faultVars,
                       zapVars, customVars, retryVars, policyVars, lateVars>>

\* An instant passes between two sweeps.
CleanupTick ==
    /\ clNow < ClMaxTime
    /\ clNow' = clNow + 1
    /\ clLast' = CleanupCall("Tick", <<>>, {}, {}, FALSE, {}, NoCall)
    /\ UNCHANGED <<clDir, clConfig>>
    /\ UNCHANGED <<loggerVars, samplerVars, jitterVars, configVars, faultVars,
                   zapVars, customVars, retryVars, policyVars, lateVars>>

\* A sweep in which compressFile and os.Remove fail on at most one file.
CleanupNext ==
    \/ \E bad \in {{}} \cup {{m} : m \in 0..ClMaxMod}, gone \in BOOLEAN :
          Cleanup(bad, gone)
    \/ CleanupTick

CleanupSpec == CleanupInit /\ [][CleanupNext]_vars

(* --------------------------- retry policies ---------------------------- *)
\* int(d.Seconds()): the whole seconds of a duration, the fraction dropped.
Seconds(d) == d \div SecondUnits

\* ShouldRetry as if the attempt that reaches MaxAttempts were retried too.
ShouldRetryOffByOne(policy, attempt) ==
    policy.kind # "NoRetryPolicy" /\ attempt <= policy.MaxAttempts

\* ShouldRetry(attempt, err): NoRetryPolicy never retries; the two others
\* retry while attempt < MaxAttempts.
ShouldRetry(policy, attempt) ==
    IF policy.kind = "NoRetryPolicy" THEN FALSE
    ELSE attempt < policy.MaxAttempts

\* WaitDuration as if the backoff did not grow with the attempt.
WaitDurationFlat(policy, attempt) ==
    IF policy.kind = "NoRetryPolicy" THEN 0
    ELSE IF policy.kind = "SimpleRetryPolicy" THEN Seconds(policy.WaitTime)
    ELSE IF attempt >= policy.MaxAttempts THEN 0
    ELSE Seconds(policy.WaitTime)

\* WaitDuration(attempt): 0 for NoRetryPolicy; the seconds of WaitTime for
\* SimpleRetryPolicy; for ExponentialBackoffRetryPolicy 0 once attempt has
\* reached MaxAttempts, and the seconds of BaseWaitTime times attempt + 1
\* before.
WaitDuration(policy, attempt) ==
    IF policy.kind = "NoRetryPolicy" THEN 0
    ELSE IF policy.kind = "SimpleRetryPolicy" THEN Seconds(policy.WaitTime)
    ELSE IF attempt >= policy.MaxAttempts THEN 0
    ELSE Seconds(policy.WaitTime) * (attempt + 1)

RetryUnchanged ==
    UNCHANGED <<loggerVars, samplerVars, jitterVars, configVars, faultVars, zapVars,
                customVars, cleanupVars, lateVars>>

PolicyInit ==
    /\ InitLogger
    /\ Constructed(LoggerConfig(Info, RateDen))
    /\ NoSample
    /\ JitterIdle
    /\ Healthy
    /\ ZapIdle
    /\ CustomIdle
    /\ CleanupIdle
    /\ RetryIdle
    /\ LateIdle
    /\ \E policy \in RetryPolicies : PolicyMade(policy)

\* ShouldRetry and WaitDuration are called with the next attempt number.
PolicyCall ==
    /\ Len(pOut) <= PolicyMaxAttempt
    /\ pOut' = Append(pOut, [should |-> ShouldRetry(pPolicy, Len(pOut)),
                             wait |-> WaitDuration(pPolicy, Len(pOut))])
    /\ UNCHANGED <<pPolicy, retryVars>>
    /\ RetryUnchanged

PolicyNext == PolicyCall

PolicySpec == PolicyInit /\ [][PolicyNext]_vars

(* -------------------------- BulkWriteWithRetry ------------------------- *)
RetryInit ==
    /\ InitLogger
    /\ Constructed(LoggerConfig(Info, RateDen))
    /\ NoSample
    /\ JitterIdle
    /\ Healthy
    /\ ZapIdle
    /\ CustomIdle
    /\ CleanupIdle
    /\ PolicyIdle
    /\ LateIdle
    /\ \E opts \in RetryPolicies \cup {NilOptions} : BulkWriteWithRetryCalled(opts)

\* The test of opts: nil options return an error before the loop.
BulkWriteWithRetryEnter ==
    /\ rPc = "call"
    /\ IF rOpts = NilOptions
       THEN /\ rPc' = "done"
            /\ rResult' = [returned |-> TRUE, nil |-> FALSE, wraps |-> 0]
       ELSE /\ rPc' = "attempt"
            /\ UNCHANGED rResult
    /\ UNCHANGED <<rOpts, rAttempt, rOutcomes, rSlept, policyVars>>
    /\ RetryUnchanged

\* One turn of the loop: coll.BulkWrite is called; nil is returned when its
\* error is nil; when the policy does not retry the loop is left and the
\* error of this attempt is returned, wrapped; otherwise the call sleeps
\* WaitDuration(attempt) seconds and attempt grows by one.
BulkWriteAttempt ==
    /\ rPc = "attempt"
    /\ \E ok \in BOOLEAN :
          /\ rOutcomes' = Append(rOutcomes, ok)
          /\ IF ok
             THEN /\ rPc' = "done"
                  /\ rResult' = [returned |-> TRUE, nil |-> TRUE, wraps |-> 0]
                  /\ UNCHANGED <<rAttempt, rSlept>>
             ELSE IF ~ShouldRetry(rOpts, rAttempt)
                  THEN /\ rPc' = "done"
                       /\ rResult' = [returned |-> TRUE, nil |-> FALSE,
                                      wraps |-> rAttempt]
                       /\ UNCHANGED <<rAttempt, rSlept>>
                  ELSE /\ rSlept' = Append(rSlept, WaitDuration(rOpts, rAttempt))
                       /\ rAttempt' = rAttempt + 1
                       /\ UNCHANGED <<rPc, rResult>>
    /\ UNCHANGED <<rOpts, policyVars>>
    /\ RetryUnchanged

RetryNext ==
    \/ BulkWriteWithRetryEnter
    \/ BulkWriteAttempt

RetrySpec == RetryInit /\ [][RetryNext]_vars

(* --------------------------- FileCompressor ---------------------------- *)
\* The components modelled before the FileCompressor, and their state when a
\* specification leaves them alone.
earlyVars == <<loggerVars, samplerVars, jitterVars, configVars, faultVars, zapVars,
               customVars, cleanupVars, retryVars, policyVars>>
EarlyIdle ==
    /\ InitLogger
    /\ Constructed(LoggerConfig(Info, RateDen))
    /\ NoSample
    /\ JitterIdle
    /\ Healthy
    /\ ZapIdle
    /\ CustomIdle
    /\ CleanupIdle
    /\ RetryIdle
    /\ PolicyIdle

CompressUnchanged == UNCHANGED <<earlyVars, derivedVars, watchVars>>

\* The formats, and the sources: one file for .gz, a directory of one file or
\* more for the two others.
Formats == {".gz", ".tar.gz", ".zip"}
Sources(format) ==
    UNION {[1..n -> 0..AMaxSize] : n \in 1..(IF format = ".gz" THEN 1 ELSE AMaxFiles)}

CompressInit ==
    /\ EarlyIdle
    /\ DerivedIdle
    /\ WatchIdle
    /\ \E format \in Formats : \E source \in Sources(format) :
          CompressCalled(format, source)

\* The bytes of file i of a source, each marked with the file it is of.
Content(source, i) == [k \in 1..source[i] |-> i]

\* A new entry of the archive for file i: its header, which declares the
\* size, and no content yet.
Entry(source, i) == [file |-> i, size |-> source[i], content |-> <<>>, closed |-> FALSE]

\* compressGz: the file is copied through the gzip writer, in Compress's own
\* goroutine.
compressGz ==
    /\ aPc = "walk" /\ aFormat = ".gz"
    /\ aArchive' = <<[Entry(aSource, 1) EXCEPT !.content = Content(aSource, 1),
                                               !.closed = TRUE]>>
    /\ aWalk' = 2
    /\ aCopy' = [aCopy EXCEPT ![1] = "done"]
    /\ aPc' = "done"
    /\ UNCHANGED <<aFormat, aSource, aErr>>
    /\ CompressUnchanged

\* tw.WriteHeader fails when the entry before has fewer bytes than its header
\* declared: the tar writer flushes that entry first.
tarWriteHeaderFails(archive) ==
    /\ archive # <<>>
    /\ Len(archive[Len(archive)].content) < archive[Len(archive)].size

\* The archive once the header of file i is written: tar appends the entry;
\* zip.CreateHeader closes the writer of the entry before and appends.
WriteHeader(format, archive, source, i) ==
    IF format = ".zip"
    THEN Append([k \in 1..Len(archive) |-> [archive[k] EXCEPT !.closed = TRUE]],
                Entry(source, i))
    ELSE Append(archive, Entry(source, i))

\* The callback of filepath.Walk on the next file, in compressTarGz and
\* compressZip: the header is written and the copying goroutine is started
\* with g.Go; an error of WriteHeader ends Walk and Compress returns it.
\* After the last file Compress goes to g.Wait.
WalkFile ==
    /\ aPc = "walk" /\ aFormat # ".gz"
    /\ IF aWalk > Len(aSource)
       THEN /\ aPc' = "wait"
            /\ UNCHANGED <<aWalk, aCopy, aArchive, aErr>>
       ELSE IF aFormat = ".tar.gz" /\ tarWriteHeaderFails(aArchive)
            THEN /\ aPc' = "done"
                 /\ aErr' = TRUE
                 /\ UNCHANGED <<aWalk, aCopy, aArchive>>
            ELSE /\ aArchive' = WriteHeader(aFormat, aArchive, aSource, aWalk)
                 /\ aCopy' = [aCopy EXCEPT ![aWalk] = "ready"]
                 /\ aWalk' = aWalk + 1
                 /\ UNCHANGED <<aPc, aErr>>
    /\ UNCHANGED <<aFormat, aSource>>
    /\ CompressUnchanged

\* The goroutine of file i runs io.CopyBuffer: an empty file gives no Write.
\* In tar the bytes go to the entry that is current, the last one, and
\* tw.Write fails when they pass its declared size; in zip they go to the
\* writer CreateHeader returned for the file, which fails once it is closed.
CopyFile(i) ==
    /\ aPc \in {"walk", "wait"} /\ aCopy[i] = "ready"
    /\ LET bytes == Content(aSource, i)
           last == Len(aArchive)
           k == IF aFormat = ".zip" THEN i ELSE last
           fails == IF aFormat = ".zip" THEN aArchive[i].closed
                    ELSE Len(aArchive[last].content) + Len(bytes) > aArchive[last].size
       IN  IF bytes = <<>>
           THEN /\ aCopy' = [aCopy EXCEPT ![i] = "done"]
                /\ UNCHANGED aArchive
           ELSE IF fails
                THEN /\ aCopy' = [aCopy EXCEPT ![i] = "failed"]
                     /\ UNCHANGED aArchive
                ELSE /\ aCopy' = [aCopy EXCEPT ![i] = "done"]
                     /\ aArchive' = [aArchive EXCEPT ![k].content = @ \o bytes]
    /\ UNCHANGED <<aFormat, aSource, aWalk, aPc, aErr>>
    /\ CompressUnchanged

\* g.Wait returns when every goroutine has, with the first error if any; the
\* deferred Close calls end the archive.
CompressWait ==
    /\ aPc = "wait"
    /\ \A i \in 1..Len(aSource) : aCopy[i] \in {"done", "failed"}
    /\ aPc' = "done"
    /\ aErr' = (\E i \in 1..Len(aSource) : aCopy[i] = "failed")
    /\ aArchive' = [k \in 1..Len(aArchive) |-> [aArchive[k] EXCEPT !.closed = TRUE]]
    /\ UNCHANGED <<aFormat, aSource, aWalk, aCopy>>
    /\ CompressUnchanged

\* Decompress on the archive: each entry gives the file of its header the
\* content stored with it.
Decompress(archive) == {[file |-> archive[k].file, content |-> archive[k].content] :
                           k \in 1..Len(archive)}

CompressNext ==
    \/ compressGz
    \/ WalkFile
    \/ \E i \in 1..AMaxFiles : i <= Len(aSource) /\ CopyFile(i)
    \/ CompressWait

CompressSpec == CompressInit /\ [][CompressNext]_vars

(* ----------------------- WithTrace, WithMetadata ------------------------ *)
\* newLogger := &SlogLogger{config: l.config, buffer: l.buffer, done: l.done}
\* with the handler and the level stored: the sampler, the WaitGroup and the
\* context extractor keep their zero values.
DerivedLogger(h, lvl) ==
    [made |-> TRUE, handler |-> h, level |-> lvl, sampler |-> NilSampler]

DerivedUnchanged ==
    UNCHANGED <<samplerVars, jitterVars, configVars, faultVars, zapVars,
                customVars, cleanupVars, retryVars, policyVars, compressVars,
                watchVars>>

DerivedInit ==
    /\ InitLogger
    /\ \E k \in ConfigRateNums : Constructed(LoggerConfig(Info, k))
    /\ NoSample
    /\ JitterIdle
    /\ Healthy
    /\ ZapIdle
    /\ ExtIdle

\* WithTrace(ctx): the handler with the trace attributes, the level read
\* from the parent.
WithTrace ==
    /\ newLogger = NoNewLogger
    /\ newLogger' = DerivedLogger(handler, level)
    /\ dRet' = "none"
    /\ event' = Op("WithTrace")
    /\ UNCHANGED <<buffer, done, records, cpc, written, level, rate, closePc, flushPc,
                   flushSnap, closeSnap, nLogs, enqueued>>
    /\ DerivedUnchanged

\* WithMetadata(metadata): the same construction with other attributes.
WithMetadata ==
    /\ newLogger = NoNewLogger
    /\ newLogger' = DerivedLogger(handler, level)
    /\ dRet' = "none"
    /\ event' = Op("WithMetadata")
    /\ UNCHANGED <<buffer, done, records, cpc, written, level, rate, closePc, flushPc,
                   flushSnap, closeSnap, nLogs, enqueued>>
    /\ DerivedUnchanged

\* log on the derived logger, called by producer p: the filter reads the
\* level of the derived logger; l.sampler.Sample() on the nil sampler is a nil
\* dereference and panics; the select is on the shared buffer and done.
DerivedLog(p, lvl) ==
    /\ newLogger # NoNewLogger /\ dRet # "panic"
    /\ TotalLogs < MaxLogs
    /\ nLogs' = [nLogs EXCEPT ![p] = @ + 1]
    /\ LET rec == Record(p, nLogs[p] + 1) IN
       IF logFiltered(newLogger.level, lvl) THEN
            /\ dRet' = "filtered"
            /\ UNCHANGED <<buffer, written, enqueued>>
       ELSE IF logSamples(lvl) /\ newLogger.sampler = NilSampler THEN
            /\ dRet' = "panic"
            /\ UNCHANGED <<buffer, written, enqueued>>
       ELSE \E case \in logSelect(buffer, done) :
            CASE case = "send" ->
                    /\ buffer' = Append(buffer, rec)
                    /\ enqueued' = enqueued \cup {rec}
                    /\ dRet' = "enqueued"
                    /\ UNCHANGED written
              [] case = "done" ->
                    /\ dRet' = "closed"
                    /\ UNCHANGED <<buffer, written, enqueued>>
              [] case = "default" ->
                    /\ written' = Append(written, rec)
                    /\ dRet' = "direct"
                    /\ UNCHANGED <<buffer, enqueued>>
    /\ event' = Op("newLogger.log")
    /\ UNCHANGED <<done, records, cpc, level, rate, closePc, flushPc, flushSnap,
                   closeSnap, newLogger>>
    /\ DerivedUnchanged

\* Close on the derived logger: close(l.done) closes the shared channel, and
\* panics when it is closed already; l.wg.Wait() is on the WaitGroup of the
\* derived logger, to which nothing was added, and returns at once.
DerivedClose ==
    /\ newLogger # NoNewLogger /\ dRet # "panic"
    /\ dRet' = IF done THEN "panic" ELSE "closeReturned"
    /\ done' = TRUE
    /\ event' = Op("newLogger.Close")
    /\ UNCHANGED <<buffer, records, cpc, written, level, rate, closePc, flushPc,
                   flushSnap, closeSnap, nLogs, enqueued, newLogger>>
    /\ DerivedUnchanged

DerivedNext ==
    \/ WithTrace
    \/ WithMetadata
    \/ \E p \in Producers, lvl \in Levels : DerivedLog(p, lvl)
    \/ DerivedClose
    \/ \E p \in Producers, lvl \in Levels : log(p, lvl)
    \/ processLogsRecord
    \/ processLogsTick
    \/ processLogsDone

DerivedSpec == DerivedInit /\ [][DerivedNext]_vars

(* ----------------------------- BaseConfig ------------------------------ *)
\* make(chan T, 1): the capacity of a watcher channel.
ChanCap == 1

WatchUnchanged == UNCHANGED <<earlyVars, compressVars, derivedVars>>

WatchInit ==
    /\ EarlyIdle
    /\ CompressIdle
    /\ DerivedIdle
    /\ NewBaseConfig

\* The channels of the list.
Listed(list) == {list[i] : i \in 1..Len(list)}

\* Watch, lines 113-122: the channel is made and appended to the list under
\* the lock, and the goroutine that waits for ctx.Done() is started.
Watch(w) ==
    /\ wPc[w] = "idle" /\ wErr = "none"
    /\ watchers' = Append(watchers, w)
    /\ wPc' = [wPc EXCEPT ![w] = "added"]
    /\ UNCHANGED <<stopCh, bcValue, wCh, wCtx, wErr>>
    /\ WatchUnchanged

\* Watch, lines 125-127: ch <- bc.Get(), with no lock held, and the return.
\* The send panics on a closed channel and waits while the channel is full.
WatchSend(w) ==
    /\ wPc[w] = "added" /\ wErr = "none"
    /\ IF wCh[w].closed
       THEN /\ wErr' = "send on closed channel"
            /\ wPc' = [wPc EXCEPT ![w] = "panic"]
            /\ UNCHANGED wCh
       ELSE /\ Len(wCh[w].buf) < ChanCap
            /\ wCh' = [wCh EXCEPT ![w].buf = Append(@, bcValue)]
            /\ wPc' = [wPc EXCEPT ![w] = "returned"]
            /\ UNCHANGED wErr
    /\ UNCHANGED <<watchers, stopCh, bcValue, wCtx>>
    /\ WatchUnchanged

\* The ctx of a call is cancelled; it can be before the call.
ctxDone(w) ==
    /\ wCtx[w] = "live" /\ wErr = "none"
    /\ wCtx' = [wCtx EXCEPT ![w] = "cancelled"]
    /\ UNCHANGED <<watchers, stopCh, bcValue, wPc, wCh, wErr>>
    /\ WatchUnchanged

\* removeWatcher(ch), run by the goroutine of Watch after <-ctx.Done(): under
\* the lock, the channel is taken out of the list and closed if it is there.
removeWatcher(w) ==
    /\ wCtx[w] = "cancelled" /\ wPc[w] # "idle" /\ wErr = "none"
    /\ wCtx' = [wCtx EXCEPT ![w] = "removed"]
    /\ IF w \in Listed(watchers)
       THEN /\ watchers' = SelectSeq(watchers, LAMBDA x : x # w)
            /\ wCh' = [wCh EXCEPT ![w].closed = TRUE]
            /\ wErr' = IF wCh[w].closed THEN "close of closed channel" ELSE "none"
       ELSE UNCHANGED <<watchers, wCh, wErr>>
    /\ UNCHANGED <<stopCh, bcValue, wPc>>
    /\ WatchUnchanged

\* notifyWatchers(config), under the read lock: each channel of the list
\* gets the value when it has room; a full channel is given up after
\* notifyTimeout.
notifyWatchers(chs, list, cfg) ==
    [w \in WatchCallers |->
        IF w \in Listed(list) /\ ~chs[w].closed /\ Len(chs[w].buf) < ChanCap
        THEN [chs[w] EXCEPT !.buf = Append(@, cfg)]
        ELSE chs[w]]

\* Load(ctx): the source is read and parsed, the value stored and the
\* watchers notified.
Load ==
    /\ bcValue < MaxVersion /\ wErr = "none"
    /\ bcValue' = bcValue + 1
    /\ wCh' = notifyWatchers(wCh, watchers, bcValue + 1)
    /\ wErr' = IF \E w \in Listed(watchers) : wCh[w].closed
               THEN "send on closed channel" ELSE "none"
    /\ UNCHANGED <<watchers, stopCh, wPc, wCtx>>
    /\ WatchUnchanged

\* The goroutine of Start, case data := <-sourceChan: the same store and
\* notification, as long as stopCh is open.
sourceUpdate ==
    /\ ~stopCh
    /\ bcValue < MaxVersion /\ wErr = "none"
    /\ bcValue' = bcValue + 1
    /\ wCh' = notifyWatchers(wCh, watchers, bcValue + 1)
    /\ wErr' = IF \E w \in Listed(watchers) : wCh[w].closed
               THEN "send on closed channel" ELSE "none"
    /\ UNCHANGED <<watchers, stopCh, wPc, wCtx>>
    /\ WatchUnchanged

\* Stop(): stopCh is closed and, under the lock, every channel of the list
\* is closed and the list set to nil.
Stop ==
    /\ ~stopCh /\ wErr = "none"
    /\ stopCh' = TRUE
    /\ wCh' = [w \in WatchCallers |->
                 IF w \in Listed(watchers) THEN [wCh[w] EXCEPT !.closed = TRUE]
                 ELSE wCh[w]]
    /\ wErr' = IF \E w \in Listed(watchers) : wCh[w].closed
               THEN "close of closed channel" ELSE "none"
    /\ watchers' = <<>>
    /\ UNCHANGED <<bcValue, wPc, wCtx>>
    /\ WatchUnchanged

\* The caller of Watch receives from the channel it was returned.
Receive(w) ==
    /\ wPc[w] = "returned" /\ wErr = "none"
    /\ wCh[w].buf # <<>>
    /\ wCh' = [wCh EXCEPT ![w].buf = Tail(@)]
    /\ UNCHANGED <<watchers, stopCh, bcValue, wPc, wCtx, wErr>>
    /\ WatchUnchanged

WatchNext ==
    \/ \E w \in WatchCallers : Watch(w)
    \/ \E w \in WatchCallers : WatchSend(w)
    \/ \E w \in WatchCallers : ctxDone(w)
    \/ \E w \in WatchCallers : removeWatcher(w)
    \/ Load
    \/ sourceUpdate
    \/ Stop
    \/ \E w \in WatchCallers : Receive(w)

WatchSpec == WatchInit /\ [][WatchNext]_vars

(* ------------------------------ claims -------------------------------- *)
Range(q) == {q[i] : i \in 1..Len(q)}

\* A step is a log call exactly when it changes nLogs; event' then describes the call.
LogStep == nLogs' # nLogs

\* The record a log step logs.
LoggedRecord == Record(event'.p, nLogs'[event'.p])

\* The log call of this step passed the severity filter and the sampler.
PassedStep == /\ ~IsHighThan(level, event'.level)
              /\ (event'.consulted => event'.accepted)

EnqueuedStep == buffer' = Append(buffer, LoggedRecord) /\ written' = written
DirectStep == written' = Append(written, LoggedRecord) /\ buffer' = buffer
NothingStep == buffer' = buffer /\ written' = written

\* C1: once Close has returned, every record that a log call placed in the
\* buffer channel before Close was called has been passed to the handler.
C1_CloseWritesEnqueued ==
    closePc = "returned" => closeSnap \subseteq Range(written)

\* C2: a log call made after Close was called neither places its record in the
\* buffer channel nor writes it through the handler.
C2_NoLogAfterClose ==
    [][(LogStep /\ done) => NothingStep]_vars

\* C3: when Flush has returned, every record placed in the buffer channel
\* before the Flush call has been passed to the handler.
C3_FlushWritesEnqueued ==
    \A c \in Flushers : flushPc[c] = "returned" => flushSnap[c] \subseteq Range(written)

\* C4: every Flush call on an open logger with a running consumer eventually
\* returns, under fair scheduling of the consumer.
C4_FlushReturns ==
    \A c \in Flushers :
        (flushPc[c] = "waiting" /\ ~done /\ cpc # "exit") ~> (flushPc[c] = "returned")

\* C5: a single Close eventually returns, and when it has returned the
\* consumer goroutine has terminated.
C5_CloseReturns ==
    /\ (closePc = "waiting") ~> (closePc = "returned")
    /\ [](closePc = "returned" => cpc = "exit")

\* C6 as stated: a log call that passes the filter and the sampler enqueues its
\* record when the channel has room and writes it through the handler when the
\* channel is full, and no log call is ever blocked.
C6_LogNeverWaits ==
    /\ [][(LogStep /\ PassedStep) =>
            IF Len(buffer) < AsyncBufferSize THEN EnqueuedStep ELSE DirectStep]_vars
    /\ [](TotalLogs < MaxLogs => \A p \in Producers, lvl \in Levels : ENABLED log(p, lvl))

\* C6 as amended: while done is open a log call that passes the filter and the
\* sampler enqueues its record when the channel has room and writes it through
\* the handler when the channel is full; once done is closed it enqueues the
\* record or drops it when the channel has room and drops it, writing nothing,
\* when the channel is full; and no log call is ever blocked.
C6_LogNeverWaitsWhileOpen ==
    /\ [][(LogStep /\ PassedStep) =>
            IF ~done
            THEN (IF Len(buffer) < AsyncBufferSize THEN EnqueuedStep ELSE DirectStep)
            ELSE (IF Len(buffer) < AsyncBufferSize THEN EnqueuedStep \/ NothingStep
                  ELSE NothingStep)]_vars
    /\ [](TotalLogs < MaxLogs => \A p \in Producers, lvl \in Levels : ENABLED log(p, lvl))

\* C6 witness: a log call on the open logger found the channel full and wrote
\* its record through the handler.
C6_Witness ==
    /\ event.op = "log" /\ event.fate = "direct" /\ ~done
    /\ Len(buffer) = AsyncBufferSize
    /\ written[Len(written)] = Record(event.p, nLogs[event.p])

\* C7: the records of one producer reach the handler in the order in which it
\* logged them.
C7_ProducerFIFO ==
    \A i, j \in 1..Len(written) :
        (i < j /\ written[i].kind = "rec" /\ written[j].kind = "rec"
               /\ written[i].p = written[j].p) => written[i].n < written[j].n

\* C8: a log call at a level below the current threshold enqueues nothing,
\* writes nothing and does not consult the sampler; a record is enqueued or
\* written only by a call at a level at or above the threshold.
C8_SeverityFilter ==
    [][LogStep =>
        /\ (levelOrder[event'.level] < levelOrder[level]) =>
                (NothingStep /\ ~event'.consulted /\ enqueued' = enqueued)
        /\ ~NothingStep => levelOrder[event'.level] >= levelOrder[level]]_vars

\* C8 witness: a log call below the threshold has been made and filtered out.
C8_Witness ==
    /\ event.op = "log"
    /\ levelOrder[event.level] < levelOrder[level]
    /\ event.fate = "filtered"

\* C9: a log call at Error or Fatal that passes the severity filter does not
\* consult the sampler and its record goes on to the channel select whatever the
\* rate (on the open logger it is enqueued or written); a call at Debug, Info or
\* Warn consults the sampler and its record is enqueued or written only if
\* Sample() returned true.
C9_SamplerBypass ==
    [][(LogStep /\ ~IsHighThan(level, event'.level)) =>
        IF event'.level \in {Error, Fatal}
        THEN /\ ~event'.consulted
             /\ ~done => (EnqueuedStep \/ DirectStep)
        ELSE /\ event'.consulted
             /\ ~NothingStep => event'.accepted
             /\ ~event'.accepted => NothingStep]_vars

\* C9 witness: with the rate at 0 an Error call has passed the filter and its
\* record has been enqueued or written.
C9_Witness ==
    /\ event.op = "log" /\ event.level = Error
    /\ rate = 0
    /\ event.fate \in {"enqueued", "direct"}

\* C10: with a rate <= 0 Sample() returns false for every draw, and with a
\* rate >= 1 it returns true for every draw.
C10_RateEdgeCases ==
    sDraw >= 0 =>
        /\ sIn <= 0 => sOut = FALSE
        /\ sIn >= RateDen => sOut = TRUE

\* The draws for which Sample() returns true under the stored threshold r.
AcceptedDraws(r) == {d \in Draws : Sample(d, r)}

\* C11: for every rate in [0, 1] the fraction of the draws for which Sample()
\* returns true equals the rate, up to the rounding of the fixed-point
\* threshold (less than one draw): accepted / WordSize = sIn / RateDen.
C11_AcceptedFraction ==
    sIn \in ValidRateNums =>
        LET diff == Cardinality(AcceptedDraws(rate)) * RateDen - sIn * WordSize
        IN  diff < RateDen /\ -diff < RateDen

\* C12: no two Sample calls of a JitterSampler that returned true have
\* timestamps less than the jitter interval apart, whatever the rate and
\* however the calls of the concurrent callers interleave.
C12_JitterSpacing ==
    \A i, j \in 1..Len(jAccepted) :
        i < j => \/ jAccepted[i] - jAccepted[j] >= JitterInterval
                 \/ jAccepted[j] - jAccepted[i] >= JitterInterval

\* C13: the consumer's batch holds fewer than AsyncBufferSize records after
\* every step; the step that takes from the channel the record that brings the
\* batch to AsyncBufferSize writes the whole batch, in arrival order, and
\* empties it.
C13_BatchBelowCapacity ==
    /\ [](Len(records) < AsyncBufferSize)
    /\ [][(event'.op = "record" /\ Len(buffer) > 0 /\ Head(buffer).kind = "rec"
            /\ Len(records) + 1 >= AsyncBufferSize) =>
              /\ written' = written \o Append(records, Head(buffer))
              /\ records' = <<>>
              /\ buffer' = Tail(buffer)]_vars

\* C13 witness: the consumer has taken the record that filled the batch and
\* has written the batch of AsyncBufferSize records.
C13_Witness ==
    /\ event.op = "record" /\ cpc = "select"
    /\ records = <<>>
    /\ Len(written) >= AsyncBufferSize
    /\ \A i \in 1..AsyncBufferSize : written[i] = Record(1, i)

\* The number of times the record r has been passed to the handler.
TimesWritten(r) == Cardinality({i \in 1..Len(written) : written[i] = r})

\* C14: a ticker event writes the whole batch once and empties it when the
\* batch is not empty, and writes nothing when it is empty; no record is
\* written twice, so that a record written by one tick is not written again by
\* a later one.
C14_TickFlushesOnce ==
    /\ [][event'.op = "tick" =>
            /\ IF records # <<>>
               THEN written' = written \o records /\ records' = <<>>
               ELSE UNCHANGED <<written, records>>
            /\ UNCHANGED buffer]_vars
    /\ [](\A r \in Range(written) : r.kind = "rec" => TimesWritten(r) = 1)

\* C14 witness: the only record logged was enqueued and taken by the consumer,
\* and after a tick it has been written once and the batch is empty.
C14_Witness ==
    /\ event.op = "tick"
    /\ TotalLogs = 1 /\ enqueued = {Record(1, 1)}
    /\ buffer = <<>> /\ records = <<>>
    /\ written = <<Record(1, 1)>>

\* C15: a SetLevel call changes the threshold only: the records in the buffer
\* channel, in the consumer's batch and already written are left as they are;
\* and whatever the threshold becomes, a record placed in the channel stays in
\* the channel or the batch until it is written: none is removed or filtered
\* again.
C15_SetLevelKeepsBuffered ==
    /\ [][event'.op = "SetLevel" => UNCHANGED <<buffer, records, written, enqueued>>]_vars
    /\ [](enqueued \subseteq Range(buffer) \cup Range(records) \cup Range(written))
    /\ [][\A r \in Range(buffer) \cup Range(records) :
            r.kind = "rec" =>
                r \in Range(buffer') \cup Range(records') \cup Range(written')]_vars

\* C15 witness: the threshold has been raised to Fatal while a record was in
\* the channel and another in the batch, and both are still there.
C15_Witness ==
    /\ event.op = "SetLevel" /\ level = Fatal
    /\ records = <<Record(1, 1)>>
    /\ buffer = <<Record(1, 2)>>

\* The configs the claims call invalid: a nil Writer, AsyncBufferSize <= 0,
\* FlushInterval <= 0 or a Sampling.Rate outside [0, 1].
InvalidConfig(c) ==
    \/ c.Writer = NilWriter
    \/ c.AsyncBufferSize <= 0
    \/ c.FlushInterval <= 0
    \/ c.Sampling.Rate < 0
    \/ c.Sampling.Rate > RateDen

\* C16: NewSlogLogger called with an invalid config returns an error and
\* starts no consumer goroutine; the consumer goroutine runs only for a config
\* that passed validation.
C16_InvalidConfigRejected ==
    /\ (event.op = "NewSlogLogger" /\ InvalidConfig(arg)) =>
            (callRet = "error" /\ cpc = "none")
    /\ callRet = "error" /\ upc = "idle" => cpc = "none"
    /\ cpc # "none" => ~InvalidConfig(config)

\* C16 witness: NewSlogLogger was given a config whose only fault is a buffer
\* size of zero, and has returned an error without starting the consumer.
C16_Witness ==
    /\ event.op = "NewSlogLogger"
    /\ arg.AsyncBufferSize = 0 /\ arg.Writer # NilWriter /\ arg.FlushInterval > 0
    /\ arg.Sampling.Rate \in ValidRateNums
    /\ callRet = "error" /\ cpc = "none"

\* C17: UpdateConfig called with an invalid config returns an error at once
\* and leaves the level, the sampler, the handler and the stored config as
\* they were when it was called.
C17_InvalidUpdateChangesNothing ==
    /\ [][(upc = "idle" /\ upc' # "idle" /\ InvalidConfig(arg')) =>
            /\ callRet' = "error" /\ upc' = "done"
            /\ UNCHANGED <<level, sIn, rate, handler, config>>]_vars
    /\ []((upc = "done" /\ InvalidConfig(arg)) =>
            (callRet = "error" /\ <<level, sIn, handler, config>> = uOld))

\* C17 witness: UpdateConfig was given a config with another level, another
\* encoder and a rate above 1, and has returned an error; the logger has the
\* level and the handler it had.
C17_Witness ==
    /\ upc = "done" /\ callRet = "error"
    /\ arg.Sampling.Rate > RateDen
    /\ arg.Level # config.Level /\ arg.Encoder # config.Encoder
    /\ level = config.Level /\ handler = createHandler(config)

\* The four values UpdateConfig replaces, and what they are when the call
\* made with config c on the values old has returned.
Snapshot == <<level, sIn, handler, config>>
UpdateResult(old, c) ==
    << IF c.Level # old[4].Level THEN c.Level ELSE old[1],
       IF c.Sampling # old[4].Sampling THEN updateSamplerRate(c) ELSE old[2],
       IF c.Encoder # old[4].Encoder \/ c.Writer # old[4].Writer
          THEN createHandler(c) ELSE old[3],
       c >>

\* C18: a log call or a consumer step that runs once UpdateConfig has been
\* called with a valid config finds the level, the sampler, the handler and the
\* config all as they were before the call or all as the call leaves them.
C18_AtomicSnapshot ==
    [][(LogStep \/ event'.op = "record") =>
            (upc = "idle" \/ Snapshot \in {uOld, UpdateResult(uOld, arg)})]_vars

\* C19: a record whose Handle call fails in writeBatch is reported to the
\* internal error logger and is not written again; the other records of the
\* batch are still passed to the handler; the consumer empties the batch after
\* the write whatever failed, so the batch stays below AsyncBufferSize; and a
\* log call is told nothing of a failure.
C19_WriteFaultDropsBatch ==
    /\ [][(event'.op \in {"record", "tick"} /\ written' # written) =>
            /\ records' = <<>>
            /\ \E batch \in {records} \cup (IF event'.op = "record"
                                            THEN {Append(records, Head(buffer))} ELSE {}) :
                /\ written' = written \o batch
                /\ \E F \in SUBSET (1..Len(batch)) :
                      internalErrors' = internalErrors \o Pick(batch, F, 1)]_vars
    /\ [](\A r \in Range(written) : r.kind = "rec" => TimesWritten(r) = 1)
    /\ [](Range(internalErrors) \subseteq Range(written))
    /\ [](Len(records) < AsyncBufferSize)
    /\ [][LogStep => UNCHANGED <<internalErrors, records>>]_vars

\* C19 witness: the consumer has written a full batch on the faulty writer; the
\* first record failed and was reported, the rest was passed to the handler
\* all the same, and the batch is empty.
C19_Witness ==
    /\ faulty /\ event.op = "record"
    /\ internalErrors = <<Record(1, 1)>>
    /\ Len(written) = AsyncBufferSize
    /\ \A i \in 1..AsyncBufferSize : written[i] = Record(1, i)
    /\ records = <<>>

\* C20: at the start of every Write the byte counter of the ZapRotator is at
\* most the size threshold, and a Write that rotates does so on an active file
\* of at most the threshold plus the bytes of that Write.
C20_ZapRotatesAtThreshold ==
    [][zLast'.op = "Write" =>
        /\ zSize <= ZapMaxBytes
        /\ zLast'.rotated => zLast'.atRotation <= ZapMaxBytes + zLast'.n]_vars

\* C21: every Rotate that returns nil, called by the owner or from Write, gives
\* the rotated file a name that no rotated file has yet, also within one
\* second, moves the whole active file to it, and leaves an empty active file
\* open for writing with the byte counter at 0.
C21_RotateKeepsEarlierFiles ==
    [][zLast'.rotated /\ zLast'.rotOk =>
        /\ \A b \in zBackups : b.name # zLast'.target
        /\ zSize' = 0 /\ zFile' = 0 /\ zWriter' = "open"]_vars

\* C23: a Write on a ZapRotator whose writer a failed rotation has left
\* closed stores nothing and returns an error with n = 0, every time; a Write
\* on an open writer appends its bytes to the active file and returns no
\* error; and when the rotation called by a Write fails, the bytes that Write
\* reports are in the file Rotate was called on, at config.Filename when the
\* rename failed and under the rotated name when the reopen failed.
C23_FailedRotationWrites ==
    [][zLast'.op = "Write" =>
        /\ zWriter = "closed" =>
               /\ zLast'.err /\ zLast'.n = 0
               /\ IF zLast'.rotated THEN zLast'.atRotation = zFile ELSE zFile' = zFile
        /\ zWriter = "open" =>
               /\ ~zLast'.err
               /\ IF zLast'.rotated THEN zLast'.atRotation = zFile + zLast'.n
                  ELSE zFile' = zFile + zLast'.n
        /\ zLast'.rotated /\ ~zLast'.rotOk =>
               /\ zWriter' = "closed"
               /\ \/ zFile' = zLast'.atRotation
                  \/ \E b \in zBackups' : b.name = zLast'.target
                                          /\ b.size = zLast'.atRotation]_vars

\* C23 witness: a Write has returned an error and n = 0 on a writer that a
\* failed rotation closed, with the file still at config.Filename.
C23_Witness ==
    /\ zLast.op = "Write" /\ zLast.err /\ zLast.n = 0
    /\ zWriter = "closed" /\ zFile # NoFile /\ ~zLast.rotated

\* The rotated files, the active file included, that are at most MaxAge days
\* old at the instant of the clock.
NoneAged ==
    /\ zClock - zMod <= zConfig.MaxAge * DayTicks
    /\ \A b \in zBackups : zClock - b.mod <= zConfig.MaxAge * DayTicks

\* C27: when a Rotate returns nil with MaxBackups > 0, no file past its age
\* and more rotated files than MaxBackups, the rotated files left are
\* MaxBackups in number and each is more recent than each removed one.
C27_KeepsMostRecent ==
    [][LET names == {b.name : b \in zBackups} \cup {zLast'.target}
           kept == {b.name : b \in zBackups'}
       IN  /\ zLast'.rotated /\ zLast'.rotOk
           /\ zConfig.MaxBackups > 0 /\ NoneAged
           /\ Cardinality(names) > zConfig.MaxBackups
           => /\ Cardinality(kept) = zConfig.MaxBackups
              /\ \A k \in kept, n \in names \ kept : n < k]_vars

\* C28: with MaxAge = 0 and MaxBackups = 0 both limits are off, and a Rotate
\* that returns nil removes no rotated file: those there before it, but for
\* the name it rotates to, and the file it has rotated are there after it.
C28_ZeroLimitKeepsAll ==
    [][zLast'.rotated /\ zLast'.rotOk /\ zConfig.MaxAge = 0 /\ zConfig.MaxBackups = 0
        => /\ \A b \in zBackups : b.name # zLast'.target => b \in zBackups'
           /\ \E b \in zBackups' : b.name = zLast'.target]_vars

\* The places in the files of the directory where the entry stands.
Written(e) ==
    {<<i, j>> \in (1..Len(custom.files)) \X (1..(2 * CrMaxEntries)) :
        j <= Len(custom.files[i].content) /\ custom.files[i].content[j] = e}

\* C22: the CustomRotator never has two handles open for writing on one file,
\* currentFile and the file of the writer it writes through being one handle,
\* and every entry flushBuffer has flushed stands in the files exactly once.
C22_SingleHandleWritesOnce ==
    /\ custom.currentFile # NilFile => custom.lumberFile # custom.currentFile
    /\ \A e \in crFlushed : Cardinality(Written(e)) = 1

\* The file ranked i (from 0) in the latest sweep is beyond maxBackups or was
\* older than maxAge days when the sweep began.
Beyond(i) ==
    \/ i >= clConfig.maxBackups
    \/ clNow - clLast'.files[i + 1] > clConfig.maxAge * DayTicks

\* Neither the file nor its compressed copy is in the directory any more.
Deleted(file) == LogFile(file) \notin clDir' /\ GzFile(file) \notin clDir'

\* C24: a Cleanup in which no compression and no removal fails deletes
\* exactly the ranked files that are beyond maxBackups or older than maxAge
\* days, and compresses exactly those ranked at notCompressed or beyond.
C24_CleanupExactly ==
    [][clLast'.op = "Cleanup" /\ clLast'.bad = {} =>
        \A i \in 0..(Len(clLast'.files) - 1) :
            /\ Deleted(clLast'.files[i + 1]) <=> Beyond(i)
            /\ clLast'.files[i + 1] \in clLast'.compressed
                   <=> i >= clConfig.notCompressed]_vars

\* C25: in a Cleanup in which compressFile and os.Remove fail on one file,
\* every other ranked file at notCompressed or beyond is compressed, and
\* every other ranked file that is beyond a limit and was not compressed is
\* removed.
C25_CleanupSkipsFailure ==
    [][clLast'.op = "Cleanup" /\ clLast'.bad # {} =>
        \A i \in 0..(Len(clLast'.files) - 1) :
            clLast'.files[i + 1] \notin clLast'.bad =>
               /\ i >= clConfig.notCompressed
                      => clLast'.files[i + 1] \in clLast'.compressed
               /\ i < clConfig.notCompressed /\ Beyond(i)
                      => clLast'.files[i + 1] \in clLast'.removed]_vars

\* C26: a Cleanup that follows, with no instant in between, a Cleanup that
\* returned nil compresses nothing, removes nothing, leaves the directory as
\* it is and returns nil.
C26_CleanupIdempotent ==
    [][clLast.op = "Cleanup" /\ ~clLast.err /\ clLast'.op = "Cleanup" =>
        /\ clDir' = clDir
        /\ clLast'.compressed = {} /\ clLast'.removed = {}
        /\ ~clLast'.err]_vars

\* C26 witness: a second Cleanup has run on a directory in which the first
\* had compressed or removed files and left log files.
C26_Witness ==
    /\ clLast.op = "Cleanup" /\ clLast.prev.op = "Cleanup"
    /\ ~clLast.prev.err /\ clLast.prev.worked
    /\ clLast.files # <<>>
    /\ \E f \in clDir : f.gz

\* C29: BulkWriteWithRetry makes attempt k + 1 only after attempt k failed
\* and ShouldRetry(k) was true; with SimpleRetryPolicy or
\* ExponentialBackoffRetryPolicy of MaxAttempts = N >= 1 it makes at most N
\* attempts and has returned after the N-th; with NoRetryPolicy it has made
\* exactly one attempt when it returns; it returns nil exactly when an
\* attempt succeeded and otherwise an error wrapping that of the last
\* attempt; with nil options it returns an error and makes no attempt.
C29_BulkWriteWithRetry ==
    LET n == Len(rOutcomes)
    IN  /\ (rPc = "done") = rResult.returned
        /\ \A k \in 1..(n - 1) : ~rOutcomes[k] /\ ShouldRetry(rOpts, k)
        /\ rOpts.kind \in {"SimpleRetryPolicy", "ExponentialBackoffRetryPolicy"}
              /\ rOpts.MaxAttempts >= 1
              => /\ n <= rOpts.MaxAttempts
                 /\ n = rOpts.MaxAttempts => rPc = "done"
        /\ rOpts = NoRetryPolicy /\ rPc = "done" => n = 1
        /\ rOpts # NilOptions /\ rPc = "done" =>
              /\ rResult.nil = (\E k \in 1..n : rOutcomes[k])
              /\ ~rResult.nil => rResult.wraps = n /\ ~rOutcomes[n]
        /\ rOpts = NilOptions =>
              /\ n = 0
              /\ rPc = "done" => ~rResult.nil

\* C29 witness: with a SimpleRetryPolicy of three attempts, three attempts
\* have failed and the error of the third has been returned.
C29_Witness ==
    /\ rOpts.kind = "SimpleRetryPolicy" /\ rOpts.MaxAttempts = RetryMaxAttempts
    /\ rPc = "done" /\ Len(rOutcomes) = RetryMaxAttempts
    /\ ~rResult.nil /\ rResult.wraps = RetryMaxAttempts
    /\ Len(rSlept) = RetryMaxAttempts - 1

C31_RoundTrip ==
    aPc = "done" =>
        /\ ~aErr
        /\ Decompress(aArchive) =
              {[file |-> i, content |-> Content(aSource, i)] : i \in 1..Len(aSource)}

\* C32: a write through the writer obtained from GetWriter, made while the
\* rotator has an open active file, is a write through the rotator: the bytes
\* are taken by the active file, and they are added to the byte counter
\* unless the write set off a rotation.
C32_HeldWriterThroughRotator ==
    [][zLast'.op = "HeldWrite" /\ zWriter = "open"
       => /\ ~zLast'.err
          /\ zFile' = zFile + zLast'.n
          /\ zLast'.rotated \/ zSize' = zSize + zLast'.n]_vars

\* C33: the buffer of the CustomRotator never holds more than bufferSize
\* entries, a flush that fails to obtain the writer included.
C33_BufferBounded == Len(custom.buffer) <= CrBufferSize

\* GetSamplingRate(): RateSampler.GetRate, float64(rate) / (1 << 63), as the
\* numerator of a fraction of RateDen.
GetSamplingRate == TruncDiv(rate * RateDen, FixedOne)

\* C34: once UpdateConfig has returned nil for a config with a rate sampler of
\* rate r, the sampler is the one NewSlogLogger makes for that config and
\* GetSamplingRate() is r.
C34_UpdateInstallsSameSampler ==
    upc = "done" /\ callRet = "ok" /\ arg.Sampling.Type = RateSamplerType
        => /\ sIn = newSamplerRate(arg)
           /\ GetSamplingRate = arg.Sampling.Rate

\* C35: what the handler was passed, and what the batch holds, are records
\* that producers logged, each at most once: neither the flush marker nor the
\* record the consumer sends after a flush is among them.
C35_OnlyProducerRecords ==
    /\ \A i \in 1..Len(written) : written[i].kind = "rec"
    /\ \A i \in 1..Len(records) : records[i].kind = "rec"
    /\ \A i, j \in 1..Len(written) : written[i] = written[j] => i = j

\* C36: the consumer that is at the send of the flush-completion record gets
\* past it and is back at its select.
C36_ConsumerReturnsToSelect == (cpc = "ack") ~> (cpc = "select")

\* C37: no call of NewSlogLogger or UpdateConfig ends in a panic: it returns
\* an error, or the logger has a handler that is not nil.
C37_NoPanicOnEncoder == callRet # "panic" /\ (callRet = "ok" => handler # NilHandler)

\* C38: no call on a logger returned by WithTrace or WithMetadata panics, and
\* Close on it has returned only when the shared consumer has terminated.
C38_DerivedLoggerUsable ==
    /\ dRet # "panic"
    /\ dRet = "closeReturned" => cpc = "exit"

\* The active write target among the log files of the directory: the file
\* getWriterInternal opened and flushBuffer writes to, which is therefore the
\* one modified last.
ActiveFile(dir) == CHOOSE m \in CleanupGlob(dir) : \A n \in CleanupGlob(dir) : n <= m

\* C39: a Cleanup call neither compresses nor removes the file that is the
\* active write target when it starts, whatever the three limits are.
C39_CleanupSparesActiveFile ==
    [][clLast'.op = "Cleanup" /\ CleanupGlob(clDir) # {}
       => /\ ActiveFile(clDir) \notin clLast'.compressed \cup clLast'.removed
          /\ LogFile(ActiveFile(clDir)) \in clDir']_vars

\* C40: no value is sent on a closed watcher channel and no watcher channel
\* is closed twice; and a call of Watch that has put its channel in the list
\* can send the current configuration at once: the channel is open and has
\* room.
C40_WatchSafe ==
    /\ wErr = "none"
    /\ \A w \in WatchCallers :
          wPc[w] = "added" => ~wCh[w].closed /\ Len(wCh[w].buf) < ChanCap

====
